---- MODULE Spec2Model ----
(***************************************************************************)
(* Goal / task store of the operator agent (GoalStore over the SQLite      *)
(* tables goals, tasks and audit_events) and its scheduler getNextTask.    *)
(*                                                                         *)
(* The database is one record `db`:                                        *)
(*   goals    : goal id  -> row of table goals                             *)
(*   tasks    : task id  -> row of table tasks                             *)
(*   audit    : the rows of audit_events, in insertion order               *)
(*   goalSeq, taskSeq : the AUTOINCREMENT counters (ids are never reused)  *)
(* Every Store method is a pure operator from a database to a database,    *)
(* translated statement by statement; the actions apply them.              *)
(*                                                                         *)
(* Abstractions: a timestamp column is NULL or TS (the value written by    *)
(* datetime('now')); title, description, skill, input, scheduled_at,       *)
(* deadline, metadata and the audit `details` text are not modelled (no    *)
(* Store method branches on them); progress is the exact rational          *)
(* completed / total in lowest terms.  better-sqlite3 enforces foreign     *)
(* keys by default, so tasks.goal_id always names a goal and deleting a    *)
(* goal deletes its tasks.                                                 *)
(***************************************************************************)
EXTENDS Integers, Sequences, FiniteSets, TLC

VARIABLES db, last, calls, exec, daemon, dec

vars == <<db, last, calls, exec, daemon, dec>>

\* ------------------------------------------------------------------ bounds
MaxGoals == 2      \* goals ever inserted
MaxTasks == 2      \* tasks ever inserted
MaxCalls == 3      \* mutating Store calls issued in one session

\* ------------------------------------------------------- program constants
DefaultPriority == 5
DefaultMaxRetries == 3

NULL == "NULL"
TS == "TS"

GoalStatus == {"active", "paused", "completed", "failed", "cancelled"}
TaskStatus == {"pending", "queued", "running", "completed", "failed", "blocked", "cancelled"}

\* Statuses the callers of updateGoalStatus pass (goal pause / resume / cancel).
CallerGoalStatus == {"paused", "active", "cancelled"}

\* Priorities given to addGoal: 1 = most urgent, 5 = the default.
Priorities == {1, DefaultPriority}

Errors == {"e1", "e2"}
Outputs == {"ok"}

\* depends_on lists given to addTask: they may name any id, also ids of tasks
\* that do not exist (yet), the task itself, or several tasks.
DepChoices == {<<>>} \cup {<<i>> : i \in 1..MaxTasks} \cup {<<1, 2>>}

\* ----------------------------------------------------------------- helpers
RECURSIVE GCD(_, _)
GCD(a, b) == IF b = 0 THEN a ELSE GCD(b, a % b)

\* completed / total as a fraction in lowest terms (total > 0).
Ratio(c, t) == LET g == GCD(c, t) IN [n |-> c \div g, d |-> t \div g]

Range(s) == {s[i] : i \in 1..Len(s)}

Put(f, k, v) == [x \in (DOMAIN f) \cup {k} |-> IF x = k THEN v ELSE f[x]]

Drop(f, ks) == [x \in (DOMAIN f) \ ks |-> f[x]]

EmptyDb ==
    [goals |-> <<>>, tasks |-> <<>>, audit |-> <<>>, goalSeq |-> 0, taskSeq |-> 0]

\* ------------------------------------------------------------------ Store
logAudit(S, eventType, entityType, entityId) ==
    [S EXCEPT !.audit = Append(@, [event_type |-> eventType,
                                   entity_type |-> entityType,
                                   entity_id |-> entityId,
                                   action |-> eventType])]

\* getTask(id) returns a row or null: whether it returns a row
hasTask(S, id) == id \in DOMAIN S.tasks

\* ids of the tasks of a goal (SELECT * FROM tasks WHERE goal_id = ?)
listTasks(S, goalId) == {t \in DOMAIN S.tasks : S.tasks[t].goal_id = goalId}

addGoal(S, priority) ==
    LET id == S.goalSeq + 1
        row == [status |-> "active", priority |-> priority,
                progress |-> [n |-> 0, d |-> 1]]
        S1 == [S EXCEPT !.goals = Put(@, id, row), !.goalSeq = id]
    IN logAudit(S1, "goal.created", "goal", id)

updateGoalStatus(S, id, status) ==
    LET S1 == IF id \in DOMAIN S.goals
              THEN [S EXCEPT !.goals[id].status = status]
              ELSE S
    IN logAudit(S1, "goal." \o status, "goal", id)

\* mutant: counts the tasks of every goal (the WHERE goal_id = ? is lost)
updateGoalProgress_allTasks(S, id) ==
    LET tasks == DOMAIN S.tasks
        completed == Cardinality({t \in tasks : S.tasks[t].status = "completed"})
        total == Cardinality(tasks)
        S1 == IF id \in DOMAIN S.goals
              THEN [S EXCEPT !.goals[id].progress = Ratio(completed, total)]
              ELSE S
    IN IF total = 0 THEN S
       ELSE IF completed >= total THEN updateGoalStatus(S1, id, "completed")
       ELSE S1

\* mutant: auto-completes the goal from progress 0.5 on
updateGoalProgress_half(S, id) ==
    LET tasks == {t \in DOMAIN S.tasks : S.tasks[t].goal_id = id}
        completed == Cardinality({t \in tasks : S.tasks[t].status = "completed"})
        total == Cardinality(tasks)
        S1 == IF id \in DOMAIN S.goals
              THEN [S EXCEPT !.goals[id].progress = Ratio(completed, total)]
              ELSE S
    IN IF total = 0 THEN S
       ELSE IF 2 * completed >= total THEN updateGoalStatus(S1, id, "completed")
       ELSE S1

updateGoalProgress(S, id) ==
    LET tasks == listTasks(S, id)
        completed == Cardinality({t \in tasks : S.tasks[t].status = "completed"})
        total == Cardinality(tasks)
        S1 == IF id \in DOMAIN S.goals
              THEN [S EXCEPT !.goals[id].progress = Ratio(completed, total)]
              ELSE S
    IN IF total = 0 THEN S
       ELSE IF completed >= total THEN updateGoalStatus(S1, id, "completed")
       ELSE S1

\* DELETE FROM goals WHERE id = ?; tasks.goal_id is ON DELETE CASCADE.
\* (variant) a removal that also purges the removed goal's audit rows
removeGoal_purgesAudit(S, id) ==
    LET Kept(r) == ~(r.entity_type = "goal" /\ r.entity_id = id)
    IN IF id \in DOMAIN S.goals
       THEN [S EXCEPT !.goals = Drop(@, {id}),
                      !.tasks = Drop(@, listTasks(S, id)),
                      !.audit = SelectSeq(@, Kept)]
       ELSE S

\* (variant) the DELETE does not cascade: the goal's tasks stay behind
removeGoal_noCascade(S, id) ==
    IF id \in DOMAIN S.goals
    THEN [S EXCEPT !.goals = Drop(@, {id})]
    ELSE S

removeGoal(S, id) ==
    IF id \in DOMAIN S.goals
    THEN [S EXCEPT !.goals = Drop(@, {id}),
                   !.tasks = Drop(@, listTasks(S, id))]
    ELSE S

\* result.changes > 0 of removeGoal's DELETE
removeGoalResult(S, id) == id \in DOMAIN S.goals

addTask(S, goalId, dependsOn, requiresApproval) ==
    LET id == S.taskSeq + 1
        row == [goal_id |-> goalId, status |-> "pending",
                depends_on |-> dependsOn,
                retry_count |-> 0, max_retries |-> DefaultMaxRetries,
                error |-> NULL, output |-> NULL,
                requires_approval |-> requiresApproval,
                approved_at |-> NULL, started_at |-> NULL, completed_at |-> NULL]
        S1 == [S EXCEPT !.tasks = Put(@, id, row), !.taskSeq = id]
    IN logAudit(S1, "task.created", "task", id)

\* mutant: the ORDER BY forgets the goal priority
Before_byId(S, a, b) == a < b

\* ORDER BY g.priority ASC, t.id ASC
Before(S, a, b) ==
    LET pa == S.goals[S.tasks[a].goal_id].priority
        pb == S.goals[S.tasks[b].goal_id].priority
    IN pa < pb \/ (pa = pb /\ a < b)

\* mutant: the SELECT forgets AND g.status = 'active'
Candidates_anyGoal(S) ==
    {t \in DOMAIN S.tasks :
        /\ S.tasks[t].status \in {"pending", "queued"}
        /\ S.tasks[t].goal_id \in DOMAIN S.goals}

\* The candidate rows of getNextTask's SELECT.
Candidates(S) ==
    {t \in DOMAIN S.tasks :
        /\ S.tasks[t].status \in {"pending", "queued"}
        /\ S.tasks[t].goal_id \in DOMAIN S.goals
        /\ S.goals[S.tasks[t].goal_id].status = "active"}

\* mutant: only the first dependency is looked up
depsMet_first(S, t) ==
    \A i \in 1..Len(S.tasks[t].depends_on) :
        LET d == S.tasks[t].depends_on[1]
        IN d \in DOMAIN S.tasks /\ S.tasks[d].status = "completed"

\* deps.every(d => d?.status === 'completed')
depsMet(S, t) ==
    \A i \in 1..Len(S.tasks[t].depends_on) :
        LET d == S.tasks[t].depends_on[i]
        IN hasTask(S, d) /\ S.tasks[d].status = "completed"

\* The for loop of getNextTask over the ordered candidates; 0 is null.
RECURSIVE walk(_, _)
walk(S, cands) ==
    IF cands = {} THEN 0
    ELSE LET t == CHOOSE x \in cands : \A y \in cands \ {x} : Before(S, x, y)
         IN IF ~depsMet(S, t) THEN walk(S, cands \ {t})
            ELSE IF S.tasks[t].requires_approval /\ S.tasks[t].approved_at = NULL
                 THEN walk(S, cands \ {t})
            ELSE t

getNextTask(S) == walk(S, Candidates(S))

\* (variant) a conditional claim: only a pending or queued task is started
startTask_claim(S, id) ==
    LET S1 == IF id \in DOMAIN S.tasks
                 /\ S.tasks[id].status \in {"pending", "queued"}
              THEN [S EXCEPT !.tasks[id].status = "running",
                             !.tasks[id].started_at = TS]
              ELSE S
    IN logAudit(S1, "task.started", "task", id)

startTask(S, id) ==
    LET S1 == IF id \in DOMAIN S.tasks
              THEN [S EXCEPT !.tasks[id].status = "running",
                             !.tasks[id].started_at = TS]
              ELSE S
    IN logAudit(S1, "task.started", "task", id)

completeTask(S, id, output) ==
    LET S1 == IF id \in DOMAIN S.tasks
              THEN [S EXCEPT !.tasks[id].status = "completed",
                             !.tasks[id].output = output,
                             !.tasks[id].completed_at = TS]
              ELSE S
        S2 == logAudit(S1, "task.completed", "task", id)
    IN IF id \in DOMAIN S2.tasks
       THEN updateGoalProgress(S2, S2.tasks[id].goal_id)
       ELSE S2

\* mutant: the retry UPDATE also stamps completed_at, as the final one does
failTask_stampsRetry(S, id, error) ==
    IF id \notin DOMAIN S.tasks THEN S
    ELSE IF S.tasks[id].retry_count < S.tasks[id].max_retries
    THEN logAudit([S EXCEPT !.tasks[id].status = "pending",
                            !.tasks[id].retry_count = @ + 1,
                            !.tasks[id].error = error,
                            !.tasks[id].completed_at = TS],
                  "task.retry", "task", id)
    ELSE logAudit([S EXCEPT !.tasks[id].status = "failed",
                            !.tasks[id].error = error,
                            !.tasks[id].completed_at = TS],
                  "task.failed", "task", id)

\* mutant: retry_count <= max_retries instead of <
failTask_lte(S, id, error) ==
    IF id \notin DOMAIN S.tasks THEN S
    ELSE IF S.tasks[id].retry_count <= S.tasks[id].max_retries
    THEN logAudit([S EXCEPT !.tasks[id].status = "pending",
                            !.tasks[id].retry_count = @ + 1,
                            !.tasks[id].error = error],
                  "task.retry", "task", id)
    ELSE logAudit([S EXCEPT !.tasks[id].status = "failed",
                            !.tasks[id].error = error,
                            !.tasks[id].completed_at = TS],
                  "task.failed", "task", id)

\* mutant: the final failure counts one more retry
failTask_finalCounts(S, id, error) ==
    IF id \notin DOMAIN S.tasks THEN S
    ELSE IF S.tasks[id].retry_count < S.tasks[id].max_retries
    THEN logAudit([S EXCEPT !.tasks[id].status = "pending",
                            !.tasks[id].retry_count = @ + 1,
                            !.tasks[id].error = error],
                  "task.retry", "task", id)
    ELSE logAudit([S EXCEPT !.tasks[id].status = "failed",
                            !.tasks[id].retry_count = @ + 1,
                            !.tasks[id].error = error,
                            !.tasks[id].completed_at = TS],
                  "task.failed", "task", id)

\* (variant) a failure is final at once: no retry
failTask_terminal(S, id, error) ==
    IF id \notin DOMAIN S.tasks THEN S
    ELSE logAudit([S EXCEPT !.tasks[id].status = "failed",
                            !.tasks[id].error = error,
                            !.tasks[id].completed_at = TS],
                  "task.failed", "task", id)

failTask(S, id, error) ==
    IF id \notin DOMAIN S.tasks THEN S
    ELSE IF S.tasks[id].retry_count < S.tasks[id].max_retries
    THEN logAudit([S EXCEPT !.tasks[id].status = "pending",
                            !.tasks[id].retry_count = @ + 1,
                            !.tasks[id].error = error],
                  "task.retry", "task", id)
    ELSE logAudit([S EXCEPT !.tasks[id].status = "failed",
                            !.tasks[id].error = error,
                            !.tasks[id].completed_at = TS],
                  "task.failed", "task", id)

\* result.changes > 0 of approveTask's UPDATE
approveTaskResult(S, id) ==
    id \in DOMAIN S.tasks /\ S.tasks[id].requires_approval

\* mutant: the UPDATE sets approved_at and leaves the status alone
approveTask_noQueue(S, id) ==
    IF approveTaskResult(S, id)
    THEN logAudit([S EXCEPT !.tasks[id].approved_at = TS], "task.approved", "task", id)
    ELSE S

\* (variant) the UPDATE lacks AND requires_approval = 1
approveTask_anyTask(S, id) ==
    IF id \in DOMAIN S.tasks
    THEN logAudit([S EXCEPT !.tasks[id].approved_at = TS,
                            !.tasks[id].status = "queued"],
                  "task.approved", "task", id)
    ELSE S

approveTask(S, id) ==
    IF approveTaskResult(S, id)
    THEN logAudit([S EXCEPT !.tasks[id].approved_at = TS,
                            !.tasks[id].status = "queued"],
                  "task.approved", "task", id)
    ELSE S

\* ------------------------------------------------- databases found on open
\* The store is a file that outlives the process: a session starts from what
\* earlier sessions left.  Each of these is the result of Store calls applied
\* to the empty database.

\* goal #1 with the default priority, goal #2 urgent
SeedGoals == addGoal(addGoal(EmptyDb, DefaultPriority), 1)

\* one execution attempt of a task that ends in a failure
RunAndFail(S, id) == failTask(startTask(S, id), id, "e1")

RECURSIVE Attempts(_, _, _)
Attempts(S, id, k) == IF k = 0 THEN S ELSE Attempts(RunAndFail(S, id), id, k - 1)

\* an approval-gated task, approved, whose execution failed max_retries - 1 times
SeedRetried ==
    Attempts(approveTask(addTask(addGoal(EmptyDb, DefaultPriority), 1, <<>>, TRUE), 1),
             1, DefaultMaxRetries - 1)

Seeds == {EmptyDb, SeedGoals, SeedRetried}

\* ---------------------------------------------------------------- actions
\* The last Store call of the session (or start call of the daemon and its
\* manager): the method, the id it was given, its
\* text argument ("" if none) and what it returned (a boolean as 1 / 0, a row
\* as its id, null and void as 0).
Call(op, id, arg, ret) == [op |-> op, id |-> id, arg |-> arg, ret |-> ret]

Bit(b) == IF b THEN 1 ELSE 0

\* Ids a caller passes: every id handed out so far (its row may be deleted)
\* and one id that names no row; ids never handed out all behave alike.
GoalIds == 1..(IF db.goalSeq < MaxGoals THEN db.goalSeq + 1 ELSE MaxGoals)
TaskIds == 1..(IF db.taskSeq < MaxTasks THEN db.taskSeq + 1 ELSE MaxTasks)

\* No executor, daemon or decomposer runs beside the session's Store calls.
NoExecutor == <<>>
NoDaemon ==
    [pid |-> 0, pidFile |-> 0, running |-> FALSE, phase |-> "off",
     exit |-> "", triggers |-> <<>>, next |-> 0, initial |-> 0,
     cronJobs |-> <<>>, fileWatchers |-> <<>>, timers |-> <<>>,
     since |-> <<>>, events |-> <<>>, fires |-> <<>>,
     heartbeatTimer |-> FALSE, signals |-> FALSE, stopping |-> "no",
     frames |-> <<>>]
NoDecomposer == [pc |-> "idle"]

others == <<exec, daemon, dec>>

Init ==
    /\ db \in Seeds
    /\ last = Call("open", 0, "", 0)
    /\ calls = 0
    /\ exec = NoExecutor
    /\ daemon = NoDaemon
    /\ dec = NoDecomposer

CallAddGoal ==
    /\ calls < MaxCalls
    /\ db.goalSeq < MaxGoals
    /\ \E p \in Priorities :
        /\ db' = addGoal(db, p)
        /\ last' = Call("addGoal", db.goalSeq + 1, "", db.goalSeq + 1)
    /\ calls' = calls + 1
    /\ UNCHANGED others

CallUpdateGoalStatus ==
    /\ calls < MaxCalls
    /\ \E id \in GoalIds, st \in CallerGoalStatus :
        /\ db' = updateGoalStatus(db, id, st)
        /\ last' = Call("updateGoalStatus", id, st, 0)
    /\ calls' = calls + 1
    /\ UNCHANGED others

CallRemoveGoal ==
    /\ calls < MaxCalls
    /\ \E id \in GoalIds :
        /\ db' = removeGoal(db, id)
        /\ last' = Call("removeGoal", id, "", Bit(removeGoalResult(db, id)))
    /\ calls' = calls + 1
    /\ UNCHANGED others

\* The insert is refused by the foreign key when the goal does not exist.
CallAddTask ==
    /\ calls < MaxCalls
    /\ db.taskSeq < MaxTasks
    /\ \E g \in DOMAIN db.goals, deps \in DepChoices, appr \in BOOLEAN :
        /\ db' = addTask(db, g, deps, appr)
        /\ last' = Call("addTask", db.taskSeq + 1, "", db.taskSeq + 1)
    /\ calls' = calls + 1
    /\ UNCHANGED others

CallGetNextTask ==
    /\ last' = Call("getNextTask", 0, "", getNextTask(db))
    /\ UNCHANGED <<db, calls>>
    /\ UNCHANGED others

CallStartTask ==
    /\ calls < MaxCalls
    /\ \E id \in TaskIds :
        /\ db' = startTask(db, id)
        /\ last' = Call("startTask", id, "", 0)
    /\ calls' = calls + 1
    /\ UNCHANGED others

CallCompleteTask ==
    /\ calls < MaxCalls
    /\ \E id \in TaskIds, out \in Outputs :
        /\ db' = completeTask(db, id, out)
        /\ last' = Call("completeTask", id, out, 0)
    /\ calls' = calls + 1
    /\ UNCHANGED others

CallFailTask ==
    /\ calls < MaxCalls
    /\ \E id \in TaskIds, err \in Errors :
        /\ db' = failTask(db, id, err)
        /\ last' = Call("failTask", id, err, 0)
    /\ calls' = calls + 1
    /\ UNCHANGED others

CallApproveTask ==
    /\ calls < MaxCalls
    /\ \E id \in TaskIds :
        /\ db' = approveTask(db, id)
        /\ last' = Call("approveTask", id, "", Bit(approveTaskResult(db, id)))
    /\ calls' = calls + 1
    /\ UNCHANGED others

Next ==
    \/ CallAddGoal
    \/ CallUpdateGoalStatus
    \/ CallRemoveGoal
    \/ CallAddTask
    \/ CallGetNextTask
    \/ CallStartTask
    \/ CallCompleteTask
    \/ CallFailTask
    \/ CallApproveTask

Spec == Init /\ [][Next]_vars

\* ================================================================ claims
\* The eligibility predicate of the data model, stated on its own words:
\* goal active, task pending or queued, every dependency an existing
\* completed task, approval not required or granted.
Eligible(S, t) ==
    /\ t \in DOMAIN S.tasks
    /\ S.tasks[t].goal_id \in DOMAIN S.goals
    /\ S.goals[S.tasks[t].goal_id].status = "active"
    /\ S.tasks[t].status \in {"pending", "queued"}
    /\ \A d \in Range(S.tasks[t].depends_on) :
          d \in DOMAIN S.tasks /\ S.tasks[d].status = "completed"
    /\ (~S.tasks[t].requires_approval \/ S.tasks[t].approved_at # NULL)

\* (goal priority ascending, task id ascending): a strictly ahead of b
Ahead(S, a, b) ==
    LET pa == S.goals[S.tasks[a].goal_id].priority
        pb == S.goals[S.tasks[b].goal_id].priority
    IN pa < pb \/ (pa = pb /\ a < b)

Returned(t) == last.op = "getNextTask" /\ last.ret = t

\* C1: whenever getNextTask() returns a task, that task is eligible in the
\* store it read: its goal is active, it is pending or queued, each of its
\* dependencies exists and is completed, and its approval gate is met.
C1_ReturnedIsEligible ==
    (last.op = "getNextTask" /\ last.ret # 0) => Eligible(db, last.ret)

\* getNextTask() returned an approval-gated task that has a dependency
C1_Witness ==
    /\ last.op = "getNextTask" /\ last.ret # 0
    /\ db.tasks[last.ret].requires_approval
    /\ db.tasks[last.ret].depends_on # <<>>

\* C2: getNextTask() returns null exactly when no task is eligible, and
\* otherwise the eligible task that is first by (goal priority, task id).
C2_FirstEligible ==
    last.op = "getNextTask" =>
        /\ (last.ret = 0) <=> (\A t \in DOMAIN db.tasks : ~Eligible(db, t))
        /\ last.ret # 0 =>
              /\ Eligible(db, last.ret)
              /\ \A u \in DOMAIN db.tasks :
                    (Eligible(db, u) /\ u # last.ret) => Ahead(db, last.ret, u)

\* the task of the priority-1 goal was returned although an eligible task of a
\* priority-5 goal has the smaller id, or a first-ranked task was skipped
C2_Witness ==
    /\ last.op = "getNextTask" /\ last.ret # 0
    /\ \E u \in DOMAIN db.tasks :
          /\ Eligible(db, u) /\ u < last.ret
          /\ db.goals[db.tasks[u].goal_id].priority = DefaultPriority
          /\ db.goals[db.tasks[last.ret].goal_id].priority = 1

\* T has exactly the one dependency d that is not an existing completed task
LastOpenDep(S, T, d) ==
    /\ T \in DOMAIN S.tasks
    /\ {x \in Range(S.tasks[T].depends_on) :
            ~(x \in DOMAIN S.tasks /\ S.tasks[x].status = "completed")} = {d}

\* T's goal is active, T is pending or queued and its approval gate is met
ReadyButForDeps(S, T) ==
    /\ T \in DOMAIN S.tasks
    /\ S.tasks[T].goal_id \in DOMAIN S.goals
    /\ S.goals[S.tasks[T].goal_id].status = "active"
    /\ S.tasks[T].status \in {"pending", "queued"}
    /\ (~S.tasks[T].requires_approval \/ S.tasks[T].approved_at # NULL)

C3_NeverWithOpenDep ==
    (last.op = "getNextTask" /\ last.ret # 0) =>
        \A d \in Range(db.tasks[last.ret].depends_on) :
            d \in DOMAIN db.tasks /\ db.tasks[d].status = "completed"

C3_AfterLastDep ==
    \A T \in 1..MaxTasks, d \in 1..MaxTasks :
        ( /\ last'.op = "completeTask" /\ last'.id = d
          /\ d \in DOMAIN db.tasks
          /\ LastOpenDep(db, T, d)
          /\ ReadyButForDeps(db', T) )
        => /\ Eligible(db', T)
           /\ LET r == getNextTask(db')
              IN r = T \/ (r # 0 /\ Eligible(db', r) /\ Ahead(db', r, T))

\* C3: a task with a dependency that is not completed is never returned by
\* getNextTask(), whatever its goal's priority; and right after completeTask
\* on its last open dependency a task that is otherwise ready is eligible, so
\* getNextTask() returns it or an eligible task ranked ahead of it.
C3_Dependencies == []C3_NeverWithOpenDep /\ [][C3_AfterLastDep]_vars

\* completeTask has just completed the only open dependency of a task of the
\* most urgent goal, and that task is what getNextTask() now yields
C3_Witness ==
    /\ last.op = "completeTask"
    /\ \E T \in DOMAIN db.tasks :
          /\ last.id \in Range(db.tasks[T].depends_on)
          /\ T # last.id
          /\ Eligible(db, T)
          /\ getNextTask(db) = T
          /\ db.goals[db.tasks[T].goal_id].priority = 1
          /\ db.goals[db.tasks[last.id].goal_id].priority = DefaultPriority

C4_NeverUnapproved ==
    (last.op = "getNextTask" /\ last.ret # 0) =>
        ~(db.tasks[last.ret].requires_approval /\ db.tasks[last.ret].approved_at = NULL)

C4_ApproveEffect ==
    (last.op = "approveTask" /\ last.ret = 1) =>
        /\ last.id \in DOMAIN db.tasks
        /\ db.tasks[last.id].approved_at # NULL
        /\ db.tasks[last.id].status = "queued"

C4_ThenReturned ==
    last.op = "getNextTask" =>
        \A t \in DOMAIN db.tasks :
            ( /\ db.tasks[t].requires_approval /\ db.tasks[t].approved_at # NULL
              /\ db.tasks[t].status \in {"pending", "queued"}
              /\ \A d \in Range(db.tasks[t].depends_on) :
                    d \in DOMAIN db.tasks /\ db.tasks[d].status = "completed"
              /\ db.goals[db.tasks[t].goal_id].status = "active"
              /\ \A u \in DOMAIN db.tasks \ {t} : Eligible(db, u) => Ahead(db, t, u) )
            => last.ret = t

\* C4: a task that requires approval and has no approved_at is never
\* returned by getNextTask(); when approveTask returns true the task has
\* approved_at set and status queued; and getNextTask() then returns it when
\* its dependencies are completed, its goal is active and no eligible task is
\* ranked ahead of it.
C4_ApprovalGate == C4_NeverUnapproved /\ C4_ApproveEffect /\ C4_ThenReturned

\* an approved approval-gated task was returned by getNextTask()
C4_Witness ==
    /\ last.op = "getNextTask" /\ last.ret # 0
    /\ db.tasks[last.ret].requires_approval
    /\ db.tasks[last.ret].status = "queued"
    /\ \E i \in 1..Len(db.audit) :
          /\ db.audit[i].event_type = "task.approved"
          /\ db.audit[i].entity_id = last.ret

CompletedOf(S, g) == {t \in DOMAIN S.tasks : S.tasks[t].goal_id = g /\ S.tasks[t].status = "completed"}
TasksOf(S, g) == {t \in DOMAIN S.tasks : S.tasks[t].goal_id = g}

\* the stored progress of g is the number completed / total
ProgressExact(S, g) ==
    S.goals[g].progress.n * Cardinality(TasksOf(S, g))
        = Cardinality(CompletedOf(S, g)) * S.goals[g].progress.d

\* C5: right after completeTask on a task of a goal, the goal's stored
\* progress equals (its completed tasks) / (its tasks).
C5_ProgressAfterComplete ==
    (last.op = "completeTask" /\ last.id \in DOMAIN db.tasks) =>
        LET g == db.tasks[last.id].goal_id
        IN g \in DOMAIN db.goals => ProgressExact(db, g)

\* completeTask left a goal with some of its tasks completed and some not
C5_Witness ==
    /\ last.op = "completeTask" /\ last.id \in DOMAIN db.tasks
    /\ LET g == db.tasks[last.id].goal_id
       IN /\ Cardinality(TasksOf(db, g)) = 2
          /\ Cardinality(CompletedOf(db, g)) = 1
          /\ db.goals[g].progress = [n |-> 1, d |-> 2]

AuditRow(eventType, entityType, entityId) ==
    [event_type |-> eventType, entity_type |-> entityType,
     entity_id |-> entityId, action |-> eventType]

\* the audit rows a step appended
NewRows == SubSeq(db'.audit, Len(db.audit) + 1, Len(db'.audit))

AllCompleted(S, g) == \A t \in TasksOf(S, g) : S.tasks[t].status = "completed"

\* the step writes status completed to goal g
SetsCompleted(g) ==
    /\ g \in DOMAIN db'.goals
    /\ db'.goals[g].status = "completed"
    /\ \/ g \notin DOMAIN db.goals
       \/ db.goals[g].status # "completed"
       \/ AuditRow("goal.completed", "goal", g) \in Range(NewRows)

C6_Step ==
    \A g \in 1..MaxGoals :
        SetsCompleted(g) <=>
            /\ last'.op = "completeTask"
            /\ last'.id \in DOMAIN db'.tasks
            /\ db'.tasks[last'.id].goal_id = g
            /\ AllCompleted(db', g)

\* C6: a goal is set to completed by exactly the completeTask calls after
\* which every task of the goal is completed; no other call writes status
\* completed, and none writes it while the goal owns a task that is not
\* completed.
C6_AutoComplete == [][C6_Step]_vars

\* completeTask on the second of two tasks has just completed the goal
C6_Witness ==
    /\ last.op = "completeTask" /\ last.id \in DOMAIN db.tasks
    /\ LET g == db.tasks[last.id].goal_id
       IN /\ db.goals[g].status = "completed"
          /\ Cardinality(TasksOf(db, g)) = 2
          /\ AllCompleted(db, g)
    /\ db.audit[Len(db.audit)] = AuditRow("goal.completed", "goal", db.tasks[last.id].goal_id)

\* C7 (as claimed): in every reachable state a goal that owns tasks has
\* progress = completed / total, within [0, 1].
C7_ProgressAlways ==
    \A g \in DOMAIN db.goals :
        TasksOf(db, g) # {} =>
            /\ ProgressExact(db, g)
            /\ 0 <= db.goals[g].progress.n
            /\ db.goals[g].progress.n <= db.goals[g].progress.d

C8_Step ==
    \A id \in DOMAIN db.tasks :
        ( /\ last'.op = "failTask" /\ last'.id = id
          /\ db.tasks[id].retry_count < db.tasks[id].max_retries )
        => /\ id \in DOMAIN db'.tasks
           /\ db'.tasks[id].status = "pending"
           /\ db'.tasks[id].retry_count = db.tasks[id].retry_count + 1
           /\ db'.tasks[id].error = last'.arg
           /\ db'.audit = Append(db.audit, AuditRow("task.retry", "task", id))
           /\ db'.tasks[id].depends_on = db.tasks[id].depends_on
           /\ db'.tasks[id].requires_approval = db.tasks[id].requires_approval
           /\ db'.tasks[id].approved_at = db.tasks[id].approved_at
           /\ db'.tasks[id].completed_at = db.tasks[id].completed_at
           /\ ( ( /\ db.goals[db.tasks[id].goal_id].status = "active"
                  /\ \A d \in Range(db.tasks[id].depends_on) :
                        d \in DOMAIN db.tasks /\ d # id /\ db.tasks[d].status = "completed"
                  /\ (~db.tasks[id].requires_approval \/ db.tasks[id].approved_at # NULL) )
                => Eligible(db', id) )

\* C8: failTask on a task with retry_count < max_retries sets status pending,
\* adds exactly 1 to retry_count, stores the error text, appends exactly one
\* task.retry audit row and leaves depends_on, requires_approval, approved_at
\* and completed_at as they were, so the task is schedulable again.
C8_Retry == [][C8_Step]_vars

\* failTask has just sent a task back to pending with its error stored
C8_Witness ==
    /\ last.op = "failTask" /\ last.id \in DOMAIN db.tasks
    /\ db.tasks[last.id].status = "pending"
    /\ db.tasks[last.id].retry_count >= 1
    /\ db.tasks[last.id].error = "e2"
    /\ db.audit[Len(db.audit)] = AuditRow("task.retry", "task", last.id)
    /\ Eligible(db, last.id)

\* how many failTask calls took effect on task t (each logs one row)
FailCalls(S, t) ==
    Cardinality({i \in 1..Len(S.audit) :
        /\ S.audit[i].entity_type = "task" /\ S.audit[i].entity_id = t
        /\ S.audit[i].event_type \in {"task.retry", "task.failed"}})

\* index of the last audit row of the given type for task t, 0 if none
LastRow(S, eventType, t) ==
    LET I == {i \in 1..Len(S.audit) : S.audit[i] = AuditRow(eventType, "task", t)}
    IN IF I = {} THEN 0 ELSE CHOOSE i \in I : \A j \in I : j <= i

\* C9 (as claimed): after max_retries failTask calls a task is failed, and
\* from then on getNextTask() never returns it.
C9_FailedAfterMaxRetries ==
    \A t \in DOMAIN db.tasks :
        FailCalls(db, t) >= db.tasks[t].max_retries =>
            /\ (last.op = "failTask" /\ last.id = t) => db.tasks[t].status = "failed"
            /\ ~Returned(t)

\* C9 (amended): after max_retries + 1 failTask calls a task is failed; once
\* it has failed for good, getNextTask() returns it only if it requires
\* approval and approveTask was applied to it after the last failure.
C9_FailedAfterRetriesUsedUp ==
    \A t \in DOMAIN db.tasks :
        /\ (FailCalls(db, t) >= db.tasks[t].max_retries + 1
              /\ last.op = "failTask" /\ last.id = t)
           => db.tasks[t].status = "failed"
        /\ (LastRow(db, "task.failed", t) > 0 /\ Returned(t))
           => /\ db.tasks[t].requires_approval
              /\ LastRow(db, "task.approved", t) > LastRow(db, "task.failed", t)
        /\ (db.tasks[t].status = "failed") => ~Returned(t)

\* the failTask call number max_retries + 1 has just failed the task for good
C9_Witness ==
    /\ last.op = "failTask" /\ last.id \in DOMAIN db.tasks
    /\ FailCalls(db, last.id) = DefaultMaxRetries + 1
    /\ db.tasks[last.id].status = "failed"
    /\ getNextTask(db) # last.id

C10_Bounded ==
    \A t \in DOMAIN db.tasks :
        0 <= db.tasks[t].retry_count /\ db.tasks[t].retry_count <= db.tasks[t].max_retries

\* the step is the final-failure branch of failTask on t
FinalFailure(t) ==
    /\ t \in DOMAIN db.tasks
    /\ last'.op = "failTask" /\ last'.id = t
    /\ db.tasks[t].retry_count = db.tasks[t].max_retries

C10_Step ==
    \A t \in 1..MaxTasks :
        /\ ( /\ t \in DOMAIN db'.tasks
             /\ db'.tasks[t].status = "failed"
             /\ (t \notin DOMAIN db.tasks \/ db.tasks[t].status # "failed") )
           => FinalFailure(t)
        /\ FinalFailure(t)
           => /\ db'.tasks[t].status = "failed"
              /\ db'.tasks[t].completed_at # NULL
              /\ db'.audit = Append(db.audit, AuditRow("task.failed", "task", t))
              /\ db'.tasks[t].retry_count = db.tasks[t].retry_count

\* C10: every task has 0 <= retry_count <= max_retries; a task becomes failed
\* only by a failTask call made while retry_count = max_retries, and that
\* call sets completed_at, appends task.failed and leaves retry_count alone.
C10_RetryBound == []C10_Bounded /\ [][C10_Step]_vars

\* failTask at retry_count = max_retries has just marked the task failed
C10_Witness ==
    /\ last.op = "failTask" /\ last.id \in DOMAIN db.tasks
    /\ db.tasks[last.id].status = "failed"
    /\ db.tasks[last.id].retry_count = db.tasks[last.id].max_retries
    /\ db.tasks[last.id].completed_at = TS
    /\ db.audit[Len(db.audit)] = AuditRow("task.failed", "task", last.id)

\* ---------------------------------------------------------------- C19
IsPrefix(s, t) == Len(s) <= Len(t) /\ SubSeq(t, 1, Len(s)) = s

\* C19: the audit trail is append-only: every Store operation leaves the
\* existing audit rows as they are and only adds rows after them, so the
\* audit sequence of a state is a prefix of that of every later state,
\* removeGoal included.
C19_AppendOnly == [][IsPrefix(db.audit, db'.audit)]_vars

\* removeGoal deleted a goal whose goal.created row is still in the trail
C19_Witness ==
    /\ last.op = "removeGoal"
    /\ last.ret = 1
    /\ last.id \notin DOMAIN db.goals
    /\ \E i \in 1..Len(db.audit) :
          db.audit[i] = AuditRow("goal.created", "goal", last.id)

\* ---------------------------------------------------------------- C20
\* C20: every Store operation that changes a goal or a task appends at least
\* one audit row in the same call; no goal or task state changes without an
\* audit row.
C20_EveryChangeAudited ==
    [][(db'.goals # db.goals \/ db'.tasks # db.tasks)
          => Len(db'.audit) > Len(db.audit)]_vars

\* ============================================================ TaskExecutor
\* processQueue(maxTasks) and execute(task), one step per statement that
\* touches the store or awaits. exec[p] is the activation of processQueue in
\* process p: where it stands, its locals, and the result it accumulates.

\* maxTasks = 5 unless the caller passes another number
DefaultBatch == 5
BatchSizes == {1, 2, DefaultBatch}

\* lines in the ```bash blocks of one reasoning response
MaxLines == 2

\* the reasoning call returns a response, or throws (transport, timeout)
ChatOutcomes == {"returned", "throw"}

\* A line of a bash block: a command that will succeed when run ("ok": its
\* execAsync resolves), a command that will fail ("failed": non-zero exit or
\* timeout), a comment, or an empty line.
LineKinds == {"ok", "failed", "#", ""}

Blocks == UNION {[1..n -> LineKinds] : n \in 0..MaxLines}

\* the bash blocks of a response, in the order they appear in it
Contents ==
    {<<>>} \cup {<<b>> : b \in Blocks}
           \cup {c \in {<<a, b>> : a \in Blocks, b \in Blocks} :
                    Len(c[1]) + Len(c[2]) <= MaxLines}

\* extractCommands: the lines of every bash block in order, without the
\* empty lines and the comments
RECURSIVE extractCommands(_)
extractCommands(content) ==
    LET IsCommand(l) == l # "" /\ l # "#"
    IN IF content = <<>> THEN <<>>
       ELSE SelectSeq(Head(content), IsCommand) \o extractCommands(Tail(content))

CommandLists == {extractCommands(c) : c \in Contents}

\* recordSkillMetric returns, or throws a storage error
MetricOutcomes == {"recorded", "throw"}

\* memoryStore.save returns, or throws a storage error
SaveOutcomes == {"saved", "throw"}

\* MemoryStore.save: INSERT INTO memories, then an audit row for the new
\* memory (its id: one more than the memories saved so far)
save(S) ==
    LET saved == {i \in 1..Len(S.audit) : S.audit[i].event_type = "memory.save"}
    IN logAudit(S, "memory.save", "memory", Cardinality(saved) + 1)

NewQueue(maxTasks) ==
    [pc |-> "loop", maxTasks |-> maxTasks, task |-> 0, processed |-> 0,
     completed |-> 0, failed |-> 0, results |-> <<>>, success |-> FALSE,
     chat |-> "none", commands |-> <<>>, attempted |-> <<>>]

\* one goal, two tasks without dependencies or approval, never run
SeedTwoTasks ==
    addTask(addTask(addGoal(EmptyDb, DefaultPriority), 1, <<>>, FALSE),
            1, <<>>, FALSE)

\* one goal, task 2 depends on task 1
SeedChain ==
    addTask(addTask(addGoal(EmptyDb, DefaultPriority), 1, <<>>, FALSE),
            1, <<1>>, FALSE)

ExecSeeds == {SeedGoals, SeedTwoTasks, SeedChain, SeedRetried}

\* (variant) a loop that ends at the first failed task
ProcessQueueLoop_stopsOnFailure ==
    \E p \in DOMAIN exec :
        /\ exec[p].pc = "loop"
        /\ LET task == getNextTask(db)
           IN IF exec[p].processed < exec[p].maxTasks /\ task # 0
                 /\ exec[p].failed = 0
              THEN exec' = [exec EXCEPT ![p].pc = "execute",
                                        ![p].task = task,
                                        ![p].processed = @ + 1]
              ELSE exec' = [exec EXCEPT ![p].pc = "returned"]
        /\ UNCHANGED <<db, last, calls, daemon, dec>>

\* while (processed < maxTasks) { task = getNextTask(); if (!task) break;
\* processed++; ... execute(task)
ProcessQueueLoop ==
    \E p \in DOMAIN exec :
        /\ exec[p].pc = "loop"
        /\ LET task == getNextTask(db)
           IN IF exec[p].processed < exec[p].maxTasks /\ task # 0
              THEN exec' = [exec EXCEPT ![p].pc = "execute",
                                        ![p].task = task,
                                        ![p].processed = @ + 1]
              ELSE exec' = [exec EXCEPT ![p].pc = "returned"]
        /\ UNCHANGED <<db, last, calls, daemon, dec>>

\* execute: this.goalStore.startTask(task.id)
ExecuteStart ==
    \E p \in DOMAIN exec :
        /\ exec[p].pc = "execute"
        /\ db' = startTask(db, exec[p].task)
        /\ exec' = [exec EXCEPT ![p].pc = "run"]
        /\ UNCHANGED <<last, calls, daemon, dec>>

\* task.skill unset: result = await this.executeWithLLM(task), which returns
\* success true, or throws when the reasoning call throws
ExecuteWithLLM ==
    \E p \in DOMAIN exec, o \in ChatOutcomes :
        /\ exec[p].pc = "run"
        /\ exec' = [exec EXCEPT
              ![p].pc = IF o = "returned" THEN "complete" ELSE "catch"]
        /\ UNCHANGED <<db, last, calls, daemon, dec>>

\* task.skill set: executeWithSkill up to the command loop. success = true;
\* try { response = await this.llm.chat(...); commands =
\* extractCommands(response.content) ... } catch { success = false }
SkillChat ==
    \E p \in DOMAIN exec, o \in ChatOutcomes, c \in CommandLists :
        /\ exec[p].pc = "run"
        /\ exec' = IF o = "returned"
                   THEN [exec EXCEPT ![p].pc = "commands",
                                     ![p].chat = o,
                                     ![p].success = TRUE,
                                     ![p].commands = c,
                                     ![p].attempted = <<>>]
                   ELSE [exec EXCEPT ![p].pc = "metric",
                                     ![p].chat = o,
                                     ![p].success = FALSE,
                                     ![p].commands = <<>>,
                                     ![p].attempted = <<>>]
        /\ UNCHANGED <<db, last, calls, daemon, dec>>

\* (variant) the first failing command ends the loop
SkillCommand_stopsAtFailure ==
    \E p \in DOMAIN exec :
        /\ exec[p].pc = "commands"
        /\ Len(exec[p].attempted) < Len(exec[p].commands)
        /\ LET k == Len(exec[p].attempted) + 1
           IN exec' = [exec EXCEPT
                 ![p].attempted = Append(@, k),
                 ![p].success = @ /\ exec[p].commands[k] = "ok",
                 ![p].pc = IF exec[p].commands[k] = "ok"
                           THEN "commands" ELSE "metric"]
        /\ UNCHANGED <<db, last, calls, daemon, dec>>

\* one round of for (const cmd of commands): try { await execAsync(cmd) }
\* catch { success = false }
SkillCommand ==
    \E p \in DOMAIN exec :
        /\ exec[p].pc = "commands"
        /\ Len(exec[p].attempted) < Len(exec[p].commands)
        /\ LET k == Len(exec[p].attempted) + 1
           IN exec' = [exec EXCEPT
                 ![p].attempted = Append(@, k),
                 ![p].success = @ /\ exec[p].commands[k] = "ok"]
        /\ UNCHANGED <<db, last, calls, daemon, dec>>

\* the loop is over
SkillCommandsDone ==
    \E p \in DOMAIN exec :
        /\ exec[p].pc = "commands"
        /\ Len(exec[p].attempted) = Len(exec[p].commands)
        /\ exec' = [exec EXCEPT ![p].pc = "metric"]
        /\ UNCHANGED <<db, last, calls, daemon, dec>>

\* this.memoryStore.recordSkillMetric(...); return { success, output } --
\* back in execute, result.success decides; an exception of the metric
\* write reaches the catch of execute
SkillReturn ==
    \E p \in DOMAIN exec, o \in MetricOutcomes :
        /\ exec[p].pc = "metric"
        /\ exec' = [exec EXCEPT
              ![p].pc = IF o = "throw" THEN "catch"
                        ELSE IF exec[p].success THEN "complete" ELSE "fail"]
        /\ UNCHANGED <<db, last, calls, daemon, dec>>

\* if (result.success) this.goalStore.completeTask(task.id, result.output)
ExecuteComplete ==
    \E p \in DOMAIN exec, out \in Outputs :
        /\ exec[p].pc = "complete"
        /\ db' = completeTask(db, exec[p].task, out)
        /\ exec' = [exec EXCEPT ![p].pc = "save"]
        /\ UNCHANGED <<last, calls, daemon, dec>>

\* this.memoryStore.save(...); return result -- or the exception reaches
\* the catch of execute
ExecuteSave ==
    \E p \in DOMAIN exec, o \in SaveOutcomes :
        /\ exec[p].pc = "save"
        /\ exec' = IF o = "saved"
                   THEN [exec EXCEPT ![p].pc = "push", ![p].success = TRUE]
                   ELSE [exec EXCEPT ![p].pc = "catch"]
        /\ db' = IF o = "saved" THEN save(db) ELSE db
        /\ UNCHANGED <<last, calls, daemon, dec>>

\* (variant) a reported failure is returned without touching the task
ExecuteFail_reportOnly ==
    \E p \in DOMAIN exec, err \in Errors :
        /\ exec[p].pc = "fail"
        /\ exec' = [exec EXCEPT ![p].pc = "push", ![p].success = FALSE]
        /\ UNCHANGED <<db, last, calls, daemon, dec>>

\* else this.goalStore.failTask(task.id, result.output); return result
ExecuteFail ==
    \E p \in DOMAIN exec, err \in Errors :
        /\ exec[p].pc = "fail"
        /\ db' = failTask(db, exec[p].task, err)
        /\ exec' = [exec EXCEPT ![p].pc = "push", ![p].success = FALSE]
        /\ UNCHANGED <<last, calls, daemon, dec>>

\* catch (err) { this.goalStore.failTask(task.id, error);
\* return { success: false, output: error } }
ExecuteCatch ==
    \E p \in DOMAIN exec, err \in Errors :
        /\ exec[p].pc = "catch"
        /\ db' = failTask(db, exec[p].task, err)
        /\ exec' = [exec EXCEPT ![p].pc = "push", ![p].success = FALSE]
        /\ UNCHANGED <<last, calls, daemon, dec>>

\* results.push({taskId, success, ...}); completed++ or failed++
ProcessQueuePush ==
    \E p \in DOMAIN exec :
        /\ exec[p].pc = "push"
        /\ exec' = [exec EXCEPT
              ![p].pc = "loop",
              ![p].chat = "none",
              ![p].commands = <<>>,
              ![p].attempted = <<>>,
              ![p].results = Append(@, [taskId |-> exec[p].task,
                                        success |-> exec[p].success]),
              ![p].completed = IF exec[p].success THEN @ + 1 ELSE @,
              ![p].failed = IF exec[p].success THEN @ ELSE @ + 1]
        /\ UNCHANGED <<db, last, calls, daemon, dec>>

NextExec ==
    \/ ProcessQueueLoop
    \/ ExecuteStart
    \/ ExecuteWithLLM
    \/ SkillChat
    \/ SkillCommand
    \/ SkillCommandsDone
    \/ SkillReturn
    \/ ExecuteComplete
    \/ ExecuteSave
    \/ ExecuteFail
    \/ ExecuteCatch
    \/ ProcessQueuePush

\* one foreground process running processQueue
InitExec ==
    /\ db \in ExecSeeds
    /\ last = Call("open", 0, "", 0)
    /\ calls = 0
    /\ exec \in {[p \in {1} |-> NewQueue(n)] : n \in BatchSizes}
    /\ daemon = NoDaemon
    /\ dec = NoDecomposer

SpecExec == InitExec /\ [][NextExec]_vars

\* two processes on one database file, each running processQueue(1); their
\* statements interleave freely
InitRace ==
    /\ db \in ExecSeeds
    /\ last = Call("open", 0, "", 0)
    /\ calls = 0
    /\ exec = [p \in {1, 2} |-> NewQueue(1)]
    /\ daemon = NoDaemon
    /\ dec = NoDecomposer

SpecRace == InitRace /\ [][NextExec]_vars

\* ---------------------------------------------------------------- C12
\* The run began on the database S (the audit rows of S come first).
StartedFrom(S) == IsPrefix(S.audit, db.audit)

\* The audit rows written since the run began.
SeedAuditLen ==
    LET S == CHOOSE T \in ExecSeeds : IsPrefix(T.audit, db.audit)
    IN Len(S.audit)

RunRows == SubSeq(db.audit, SeedAuditLen + 1, Len(db.audit))

\* positions of the result list that report task t
RunsOf(q, t) == {i \in 1..Len(q.results) : q.results[i].taskId = t}

\* processQueue(5) returned; it began with exactly two eligible tasks (never
\* run, default max_retries); the first task it selected failed and every
\* execution of the other task succeeded
C12_Scenario ==
    /\ DOMAIN exec = {1}
    /\ exec[1].pc = "returned"
    /\ exec[1].maxTasks = DefaultBatch
    /\ StartedFrom(SeedTwoTasks)
    /\ db.tasks[2].depends_on = <<>>
    /\ Len(exec[1].results) >= 1
    /\ ~exec[1].results[1].success
    /\ \A i \in 1..Len(exec[1].results) :
          exec[1].results[i].taskId # exec[1].results[1].taskId
             => exec[1].results[i].success

RECURSIVE StartedIds(_)
StartedIds(rows) ==
    IF rows = <<>> THEN <<>>
    ELSE IF Head(rows).event_type = "task.started"
         THEN <<Head(rows).entity_id>> \o StartedIds(Tail(rows))
         ELSE StartedIds(Tail(rows))

C13_Counts ==
    \A p \in DOMAIN exec :
        /\ exec[p].processed <= exec[p].maxTasks
        /\ exec[p].pc \in {"loop", "returned"} =>
             /\ exec[p].processed = exec[p].completed + exec[p].failed
             /\ exec[p].processed = Len(exec[p].results)
             /\ DOMAIN exec = {1} =>
                  StartedIds(RunRows) =
                     [i \in 1..Len(exec[p].results) |-> exec[p].results[i].taskId]

C13_Step ==
    \A p \in DOMAIN exec :
        /\ (exec'[p].pc = "returned" /\ exec[p].pc # "returned")
              => (exec[p].processed = exec[p].maxTasks \/ getNextTask(db) = 0)
        /\ exec'[p].processed # exec[p].processed
              => /\ exec'[p].processed = exec[p].processed + 1
                 /\ getNextTask(db) # 0
                 /\ exec'[p].task = getNextTask(db)
        /\ (exec[p].pc = "loop" /\ exec[p].failed > 0
               /\ exec[p].processed < exec[p].maxTasks /\ getNextTask(db) # 0)
              => exec'[p].pc # "returned"

\* C13: processQueue(maxTasks) never stops because a task failed: it returns
\* only when processed = maxTasks or getNextTask() returned null; always
\* processed <= maxTasks, and between iterations processed = completed +
\* failed = length of the result list; each counted iteration is one
\* execute call (one startTask) on the task getNextTask() returned.
C13_BatchLoop == []C13_Counts /\ [][C13_Step]_vars

\* a task was executed after an earlier one had failed
C13_Witness ==
    /\ DOMAIN exec = {1}
    /\ exec[1].pc = "returned"
    /\ exec[1].processed = exec[1].maxTasks
    /\ \E i, j \in 1..Len(exec[1].results) :
          i < j /\ ~exec[1].results[i].success /\ exec[1].results[j].success

\* ---------------------------------------------------------------- C16
\* position of the last task.started row of task t (0 if none)
LastStart(t) ==
    LET at == {i \in 1..Len(db.audit) :
                  db.audit[i] = AuditRow("task.started", "task", t)}
    IN IF at = {} THEN 0 ELSE CHOOSE i \in at : \A j \in at : j <= i

\* the completeTask / failTask rows written for t since it was last started
OutcomeRows(t) ==
    {i \in (LastStart(t) + 1)..Len(db.audit) :
        /\ db.audit[i].entity_type = "task"
        /\ db.audit[i].entity_id = t
        /\ db.audit[i].event_type \in
              {"task.completed", "task.retry", "task.failed"}}

\* C16: execute(task) applies startTask before the run, then exactly one of
\* completeTask or failTask before it returns, and never returns with the
\* task left running.
C16_ExactlyOneOutcome ==
    DOMAIN exec = {1} =>
        LET q == exec[1] IN
        /\ q.pc \in {"run", "commands", "metric", "complete", "fail",
                    "catch", "save", "push"}
              => LastStart(q.task) > 0
        /\ q.pc = "run" =>
              /\ OutcomeRows(q.task) = {}
              /\ db.tasks[q.task].status = "running"
        /\ q.pc = "push" =>
              /\ Cardinality(OutcomeRows(q.task)) = 1
              /\ db.tasks[q.task].status # "running"

\* ---------------------------------------------------------------- C17
\* a process applies startTask to the task it selected
Starts(p) ==
    /\ exec[p].pc = "execute"
    /\ exec'[p].pc = "run"

C17_Step ==
    \A p \in DOMAIN exec :
        (Starts(p) /\ exec[p].task \in DOMAIN db.tasks) =>
            /\ db'.tasks[exec[p].task].status = "running"
            /\ db'.audit = Append(db.audit,
                              AuditRow("task.started", "task", exec[p].task))

\* C17: no Store operation makes the pending-to-running claim conditional:
\* startTask sets the task running whatever its status and whoever selected
\* it, so two processes on one store can both obtain the same task from
\* getNextTask() and both start it.
C17_UnconditionalStart == [][C17_Step]_vars

\* both processes selected the same task and both applied startTask to it
C17_Witness ==
    /\ DOMAIN exec = {1, 2}
    /\ exec[1].task # 0
    /\ exec[1].task = exec[2].task
    /\ exec[1].pc = "run"
    /\ exec[2].pc = "run"
    /\ Len(StartedIds(RunRows)) = 2
    /\ StartedIds(RunRows)[1] = StartedIds(RunRows)[2]

\* =========================================================== DaemonService
\* One daemon process. Its callbacks run on one event loop: the code between
\* two awaits that wait for I/O runs without interruption, and an await on a
\* promise that is already settled (executeTask, which only builds a
\* string; a processGoalQueue that found no task; a finished recursion)
\* continues before any timer or I/O callback runs. The awaits that let
\* other callbacks in are the log writes (mkdir + appendFile).
\*
\* daemon.frames lists the processGoalQueue invocations in the order they
\* were entered; parent is the invocation awaiting this one (0 for a call
\* from start() or from a trigger callback).

\* invocations entered from start() and from trigger callbacks
MaxInvocations == 2

\* invocations in all, nested ones included
MaxFrames == 4

\* the log write resolves, or rejects with a file-system error
LogOutcomes == {"written", "rejected"}

\* the daemon and the database as one value the helpers below transform
World(S, frames) == [db |-> S, frames |-> frames]

\* processGoalQueue up to its first await: task = getNextTask();
\* if (!task) return; ... await this.log(...)
Enter(W, parent) ==
    LET task == getNextTask(W.db)
    IN [W EXCEPT !.frames =
           Append(@, [pc |-> IF task = 0 THEN "done" ELSE "log1",
                      task |-> task, parent |-> parent])]

\* (variant) a catch that goes on draining the queue after the failure
Catch_keepsDraining(W, i) ==
    Enter([db |-> failTask(W.db, W.frames[i].task, "e1"),
           frames |-> [W.frames EXCEPT ![i].pc = "drain"]], i)

\* catch (err) { failTask(task.id, error); ...; await this.log(...) }
Catch(W, i) ==
    [db |-> failTask(W.db, W.frames[i].task, "e1"),
     frames |-> [W.frames EXCEPT ![i].pc = "log3"]]

\* invocation i returns; an invocation awaiting it (line 188) has nothing
\* left to do and returns as well
RECURSIVE Return(_, _)
Return(W, i) ==
    LET W1 == [W EXCEPT !.frames[i].pc = "done"]
    IN IF W.frames[i].parent = 0 THEN W1 ELSE Return(W1, W.frames[i].parent)

\* an exception leaves invocation i; an invocation awaiting it inside its
\* try (line 188) catches it
Throw(W, i) ==
    LET W1 == [W EXCEPT !.frames[i].pc = "thrown"]
    IN IF W.frames[i].parent = 0 THEN W1 ELSE Catch(W1, W.frames[i].parent)

\* await this.processGoalQueue() at line 188: the nested invocation runs to
\* its first await; if it found no task both return
Drain(W, i) ==
    LET W1 == Enter([W EXCEPT !.frames[i].pc = "drain"], i)
        child == Len(W1.frames)
    IN IF W1.frames[child].pc = "done" THEN Return(W1, child) ELSE W1

TopLevel == {i \in 1..Len(daemon.frames) : daemon.frames[i].parent = 0}

\* triggers of .agent/triggers.yaml: the event type, and whether the entry
\* carries what its type needs (a schedule, a watch path). 'webhook' is a
\* type of TriggerConfig that registerTrigger has no case for. The action of
\* an entry is goal-progress (skill and run actions only write log lines).
Triggers ==
    {[event |-> "cron", armed |-> TRUE], [event |-> "cron", armed |-> FALSE],
     [event |-> "file.changed", armed |-> TRUE],
     [event |-> "webhook", armed |-> FALSE]}

\* entries of the trigger file
MaxTriggers == 2

TriggerLists == UNION {[1..n -> Triggers] : n \in 0..MaxTriggers}

\* the debounce window (trigger.debounce ?? 2000 ms), in clock ticks
Window == 2

\* The log writes of start() and shutdown() are awaited outside any try of
\* DaemonService; they are taken to succeed, like every storage access the
\* code has no handler for. A pass that throws does reject start().

\* the process is running code: forked and not exited
Alive == daemon.pid # 0 /\ daemon.phase # "exited"

\* process.exit: after start() rejected (service.js prints the error), at
\* the end of shutdown, or by a signal nobody handles. The memory of the
\* process is gone with its timers, watchers and pending callbacks; the
\* flag is kept as it was at the exit.
Exit(D, why) ==
    [NoDaemon EXCEPT !.pid = D.pid, !.pidFile = D.pidFile,
                     !.running = D.running, !.phase = "exited", !.exit = why]

\* start() after await this.processGoalQueue() (line 65): the signal
\* handlers, then the last log line; if the pass threw, start() rejects
Resume(D) ==
    IF D.phase # "initial" THEN D
    ELSE IF D.frames[D.initial].pc = "done"
         THEN [D EXCEPT !.phase = "ready", !.signals = TRUE]
    ELSE IF D.frames[D.initial].pc = "thrown" THEN Exit(D, "pass")
    ELSE D

\* start() lines 62-65: the heartbeat timer, then the initial pass
InitialPass(D, S) ==
    Resume([D EXCEPT !.heartbeatTimer = TRUE,
                     !.phase = "initial",
                     !.triggers = <<>>,
                     !.next = 0,
                     !.initial = Len(D.frames) + 1,
                     !.frames = Enter(World(S, D.frames), 0).frames])

\* (variant) a trigger of an unknown type is an error
registerTrigger_strict(D, k) ==
    LET t == D.triggers[k]
    IN CASE t.event \in {"cron", "goal.check"} ->
              IF t.armed
              THEN [D EXCEPT !.cronJobs = Append(@, t), !.next = k]
              ELSE [D EXCEPT !.next = 0]
         [] t.event = "file.changed" ->
              IF t.armed
              THEN [D EXCEPT !.fileWatchers = Append(@, t),
                             !.timers = Append(@, {}),
                             !.since = Append(@, Window),
                             !.events = Append(@, 0),
                             !.fires = Append(@, 0),
                             !.next = k]
              ELSE [D EXCEPT !.next = 0]
         [] OTHER -> Exit(D, "trigger")

\* registerTrigger(trigger) up to its await: the job or the watcher is
\* created and pushed, then a line is logged (next = k while that write is
\* pending); an entry without schedule or watch path does nothing
registerTrigger(D, k) ==
    LET t == D.triggers[k]
    IN CASE t.event \in {"cron", "goal.check"} ->
              IF t.armed
              THEN [D EXCEPT !.cronJobs = Append(@, t), !.next = k]
              ELSE [D EXCEPT !.next = 0]
         [] t.event = "file.changed" ->
              IF t.armed
              THEN [D EXCEPT !.fileWatchers = Append(@, t),
                             !.timers = Append(@, {}),
                             !.since = Append(@, Window),
                             !.events = Append(@, 0),
                             !.fires = Append(@, 0),
                             !.next = k]
              ELSE [D EXCEPT !.next = 0]
         [] OTHER -> [D EXCEPT !.next = k]

\* for (const trigger of triggers) await this.registerTrigger(trigger),
\* from entry k up to the next log write; after the last entry the
\* heartbeat and the initial pass
RECURSIVE Register(_, _, _)
Register(D, S, k) ==
    IF k > Len(D.triggers) THEN InitialPass(D, S)
    ELSE LET D1 == registerTrigger([D EXCEPT !.phase = "register"], k)
         IN IF D1.phase = "exited" \/ D1.next # 0
            THEN D1
            ELSE Register(D1, S, k + 1)

\* passes that are due but not entered yet: the initial one, and one per
\* pending debounce timer
PendingPasses ==
    (IF daemon.phase \in {"banner", "register"} THEN 1 ELSE 0)
       + Cardinality({k \in 1..Len(daemon.timers) : daemon.timers[k] # {}})

\* start() as service.js calls it when the process begins: this.running =
\* true, then the first log lines and loadTriggers
DaemonStart ==
    /\ Alive
    /\ daemon.phase = "off"
    /\ ~daemon.running
    /\ daemon' = [daemon EXCEPT !.running = TRUE, !.phase = "banner"]
    /\ UNCHANGED <<db, last, calls, exec, dec>>

\* (variant) start() without its guard
DaemonStartAgain_reenters ==
    /\ Alive
    /\ daemon.running
    /\ last' = Call("daemon.start", daemon.pid, "", 0)
    /\ daemon' = [daemon EXCEPT !.phase = "banner"]
    /\ UNCHANGED <<db, calls, exec, dec>>

\* start() called while running: if (this.running) return
DaemonStartAgain ==
    /\ Alive
    /\ daemon.running
    /\ last' = Call("daemon.start", daemon.pid, "", 0)
    /\ UNCHANGED <<db, calls, exec, daemon, dec>>

\* the log lines 50-55 and loadTriggers settle: triggers is one of the
\* lists the trigger file may hold, and the registration begins
LoadTriggers(files) ==
    \E l \in files :
        /\ Alive
        /\ daemon.phase = "banner"
        /\ Len(daemon.frames) < MaxFrames
        /\ daemon' = Register([daemon EXCEPT !.triggers = l], db, 1)
        /\ UNCHANGED <<db, last, calls, exec, dec>>

\* a trigger file with one cron entry
StartLoadedCron == LoadTriggers({<<[event |-> "cron", armed |-> TRUE]>>})

\* any trigger file
StartLoaded == LoadTriggers(TriggerLists)

\* the log line of registerTrigger settles; the loop goes on
TriggerRegistered ==
    /\ Alive
    /\ daemon.phase = "register"
    /\ Len(daemon.frames) < MaxFrames
    /\ daemon' = Register(daemon, db, daemon.next + 1)
    /\ UNCHANGED <<db, last, calls, exec, dec>>

\* a cron job fires: onTriggerFired -> processGoalQueue
TriggerFired ==
    /\ Alive
    /\ daemon.cronJobs # <<>>
    /\ daemon.stopping \in {"no", "log"}
    /\ Cardinality(TopLevel) + PendingPasses < MaxInvocations
    /\ Len(daemon.frames) < MaxFrames
    /\ daemon' = [daemon EXCEPT
          !.frames = Enter(World(db, daemon.frames), 0).frames]
    /\ UNCHANGED <<db, last, calls, exec, dec>>

\* the log write of line 167 settles; if written: startTask, executeTask
\* (returns its string), completeTask, and the log write of line 177 begins
LogProcessing ==
    \E i \in 1..Len(daemon.frames), o \in LogOutcomes, out \in Outputs :
        /\ Alive
        /\ daemon.frames[i].pc = "log1"
        /\ LET t == daemon.frames[i].task
               W == IF o = "written"
                    THEN [db |-> completeTask(startTask(db, t), t, out),
                          frames |-> [daemon.frames EXCEPT ![i].pc = "log2"]]
                    ELSE Throw(World(db, daemon.frames), i)
           IN /\ db' = W.db
              /\ daemon' = Resume([daemon EXCEPT !.frames = W.frames])
        /\ UNCHANGED <<last, calls, exec, dec>>

\* the log write of line 177 settles; if written: memoryStore.save, then
\* the recursive call; a rejected write or a throwing save enters the catch
LogCompleted ==
    \E i \in 1..Len(daemon.frames), o \in LogOutcomes, sv \in SaveOutcomes :
        /\ Alive
        /\ daemon.frames[i].pc = "log2"
        /\ (o = "written" /\ sv = "saved") => Len(daemon.frames) < MaxFrames
        /\ LET W0 == World(db, daemon.frames)
               W == IF o = "written" /\ sv = "saved"
                    THEN Drain([W0 EXCEPT !.db = save(@)], i)
                    ELSE Catch(W0, i)
           IN /\ db' = W.db
              /\ daemon' = Resume([daemon EXCEPT !.frames = W.frames])
        /\ UNCHANGED <<last, calls, exec, dec>>

\* the log write of line 194 (in the catch) settles: the invocation returns,
\* or the rejection leaves it
LogFailed ==
    \E i \in 1..Len(daemon.frames), o \in LogOutcomes :
        /\ Alive
        /\ daemon.frames[i].pc = "log3"
        /\ LET W0 == World(db, daemon.frames)
               W == IF o = "written" THEN Return(W0, i) ELSE Throw(W0, i)
           IN /\ db' = W.db
              /\ daemon' = Resume([daemon EXCEPT !.frames = W.frames])
        /\ UNCHANGED <<last, calls, exec, dec>>

NextDaemon ==
    \/ DaemonStart
    \/ StartLoadedCron
    \/ TriggerRegistered
    \/ TriggerFired
    \/ LogProcessing
    \/ LogCompleted
    \/ LogFailed

\* the databases the daemon starts on
DaemonSeeds == {SeedTwoTasks, SeedRetried}

\* the daemon process has been forked
InitDaemon ==
    /\ db \in DaemonSeeds
    /\ last = Call("open", 0, "", 0)
    /\ calls = 0
    /\ exec = NoExecutor
    /\ daemon = [NoDaemon EXCEPT !.pid = 1, !.pidFile = 1]
    /\ dec = NoDecomposer

SpecDaemon == InitDaemon /\ [][NextDaemon]_vars

\* ------------------------------------------------- daemon lifecycle
\* Time passes in ticks. A timer that is due runs before a later event is
\* delivered (the timers phase of the event loop precedes the poll phase),
\* so no tick and no change event passes a due timer.
\*
\* Per watcher the model keeps what an observer of the trigger sees: since,
\* the ticks since its last change event (Window stands for "a window or
\* more"); events, the change events of the current burst, which begins
\* with the first event after the timer ran (2 stands for "two or more");
\* fires, the timer callbacks run for that burst.

NoTimerDue == \A k \in 1..Len(daemon.timers) : 0 \notin daemon.timers[k]

\* (variant) a change event leaves a pending timer alone
handleChange_keepsTimer(pending) == pending \cup {Window}

\* handleChange: if (debounceTimer) clearTimeout(debounceTimer);
\* debounceTimer = setTimeout(..., trigger.debounce ?? 2000). The value is
\* the set of pending timers of the trigger, each by the ticks it has left.
handleChange(pending) == {Window}

\* the watcher of fileWatchers[k] reports a change or an added file
FileChanged ==
    \E k \in 1..Len(daemon.fileWatchers) :
        /\ Alive
        /\ daemon.stopping # "goodbye"
        /\ NoTimerDue
        /\ daemon.timers[k] = {} =>
              Cardinality(TopLevel) + PendingPasses < MaxInvocations
        /\ daemon' = [daemon EXCEPT
              !.timers[k] = handleChange(@),
              !.since[k] = 0,
              !.events[k] = IF daemon.timers[k] = {} THEN 1 ELSE 2,
              !.fires[k] = IF daemon.timers[k] = {} THEN 0 ELSE @]
        /\ UNCHANGED <<db, last, calls, exec, dec>>

\* one tick passes while a timer is pending
Tick ==
    /\ Alive
    /\ NoTimerDue
    /\ \E k \in 1..Len(daemon.timers) : daemon.timers[k] # {}
    /\ daemon' = [daemon EXCEPT
          !.timers = [k \in DOMAIN @ |-> {r - 1 : r \in @[k]}],
          !.since = [k \in DOMAIN @ |->
                        IF @[k] < Window THEN @[k] + 1 ELSE Window]]
    /\ UNCHANGED <<db, last, calls, exec, dec>>

\* a debounce timer runs: onTriggerFired(trigger, { changedFile }) ->
\* processGoalQueue
DebounceFired ==
    \E k \in 1..Len(daemon.timers) :
        /\ Alive
        /\ 0 \in daemon.timers[k]
        /\ Len(daemon.frames) < MaxFrames
        /\ daemon' = [daemon EXCEPT
              !.timers[k] = @ \ {0},
              !.fires[k] = @ + 1,
              !.frames = Enter(World(db, daemon.frames), 0).frames]
        /\ UNCHANGED <<db, last, calls, exec, dec>>

\* DaemonManager.status(): the pid file exists and process.kill(pid, 0)
\* finds the process
MarkerLive == daemon.pidFile # 0 /\ daemon.pidFile = daemon.pid /\ Alive

\* DaemonManager.start(): the existing pid if status() says running, else
\* fork service.js (the child gets pid 1) and write the pid file. The model
\* follows the first daemon process: nothing is forked after it.
ManagerStart ==
    IF MarkerLive
    THEN /\ last' = Call("manager.start", daemon.pidFile, "", 0)
         /\ UNCHANGED <<db, calls, exec, daemon, dec>>
    ELSE /\ daemon.pid = 0
         /\ last' = Call("manager.start", 1, "", 1)
         /\ daemon' = [daemon EXCEPT !.pid = 1, !.pidFile = 1]
         /\ UNCHANGED <<db, calls, exec, dec>>

\* DaemonManager.stop(): if status() says running, SIGTERM and unlink the
\* pid file; status() unlinks a stale pid file. The signal starts shutdown()
\* (its first log line) where start() has registered the handlers, and ends
\* the process at once where it has not.
ManagerStop ==
    /\ daemon.pidFile # 0
    /\ daemon' = LET D == [daemon EXCEPT !.pidFile = 0]
                 IN IF ~MarkerLive THEN D
                    ELSE IF ~daemon.signals THEN Exit(D, "SIGTERM")
                    ELSE IF daemon.stopping = "no"
                         THEN [D EXCEPT !.stopping = "log"]
                    ELSE D
    /\ UNCHANGED <<db, last, calls, exec, dec>>

\* shutdown() after its first log line: running = false, the heartbeat is
\* cleared, the cron jobs are stopped, the watchers begin to close
ShutdownLogged ==
    /\ Alive
    /\ daemon.stopping = "log"
    /\ daemon' = [daemon EXCEPT !.running = FALSE,
                                !.heartbeatTimer = FALSE,
                                !.stopping = "closing"]
    /\ UNCHANGED <<db, last, calls, exec, dec>>

\* every await watcher.close() has settled; the summary lines are logged
WatchersClosed ==
    /\ Alive
    /\ daemon.stopping = "closing"
    /\ daemon' = [daemon EXCEPT !.stopping = "goodbye"]
    /\ UNCHANGED <<db, last, calls, exec, dec>>

\* the last log lines settle: process.exit(0)
ShutdownExit ==
    /\ Alive
    /\ daemon.stopping = "goodbye"
    /\ daemon' = Exit(daemon, "shutdown")
    /\ UNCHANGED <<db, last, calls, exec, dec>>

NextLifecycle ==
    \/ DaemonStart
    \/ DaemonStartAgain
    \/ StartLoaded
    \/ TriggerRegistered
    \/ TriggerFired
    \/ FileChanged
    \/ Tick
    \/ DebounceFired
    \/ ManagerStart
    \/ ManagerStop
    \/ ShutdownLogged
    \/ WatchersClosed
    \/ ShutdownExit

\* no daemon process yet; the database holds goals and no task, so every
\* pass returns at its first statement
InitLifecycle ==
    /\ db = SeedGoals
    /\ last = Call("open", 0, "", 0)
    /\ calls = 0
    /\ exec = NoExecutor
    /\ daemon = NoDaemon
    /\ dec = NoDecomposer

SpecLifecycle == InitLifecycle /\ [][NextLifecycle]_vars

\* ---------------------------------------------- shutdown with work pending
\* The daemon of the lifecycle above on a database that holds eligible
\* tasks, so that passes are suspended at their log writes when the
\* shutdown runs.

\* a trigger file with one cron entry, or with one watcher entry
StartLoadedOne ==
    LoadTriggers({<<[event |-> "cron", armed |-> TRUE]>>,
                  <<[event |-> "file.changed", armed |-> TRUE]>>})

NextShutdown ==
    \/ DaemonStart
    \/ StartLoadedOne
    \/ TriggerRegistered
    \/ TriggerFired
    \/ FileChanged
    \/ Tick
    \/ DebounceFired
    \/ LogProcessing
    \/ LogCompleted
    \/ LogFailed
    \/ ManagerStop
    \/ ShutdownLogged
    \/ WatchersClosed
    \/ ShutdownExit

InitShutdown ==
    /\ db = SeedTwoTasks
    /\ last = Call("open", 0, "", 0)
    /\ calls = 0
    /\ exec = NoExecutor
    /\ daemon = [NoDaemon EXCEPT !.pid = 1, !.pidFile = 1]
    /\ dec = NoDecomposer

SpecShutdown == InitShutdown /\ [][NextShutdown]_vars

\* ------------------------------------------------- a stream of urgent work
\* One foreground process runs processQueue while a second caller (`goal
\* task <goalId> <title>` of the command line) keeps adding tasks to the
\* urgent goal #2 of the database. Goal #1 has the default priority and holds
\* task #1, which is eligible from the start.

\* tasks ever inserted while the stream runs
MaxStream == 4

\* goal #1 (default priority) with task #1, goal #2 (priority 1) with task #2
SeedStream ==
    addTask(addTask(SeedGoals, 1, <<>>, FALSE), 2, <<>>, FALSE)

\* goal task 2 <title>: goals.getGoal(2) finds the goal whatever its status,
\* then goals.addTask(2, title, {dependsOn: [], requiresApproval: false})
StreamAdd ==
    /\ db.taskSeq < MaxStream
    /\ db' = addTask(db, 2, <<>>, FALSE)
    /\ UNCHANGED <<last, calls, exec, daemon, dec>>

\* the tasks of the stream are added without --skill, so execute() takes
\* executeWithLLM for each of them: the result is successful or the call
\* throws, and the result.success = false branch is not taken
NextStream ==
    \/ ProcessQueueLoop
    \/ ExecuteStart
    \/ ExecuteWithLLM
    \/ ExecuteComplete
    \/ ExecuteSave
    \/ ExecuteCatch
    \/ ProcessQueuePush
    \/ StreamAdd

InitStream ==
    /\ db = SeedStream
    /\ last = Call("open", 0, "", 0)
    /\ calls = 0
    /\ exec = [p \in {1} |-> NewQueue(DefaultBatch)]
    /\ daemon = NoDaemon
    /\ dec = NoDecomposer

SpecStream == InitStream /\ [][NextStream]_vars

\* -------------------------------------- failTask, statement by statement
\* Two processes share the database file. Each statement of better-sqlite3
\* is atomic, but failTask is two statements, the SELECT of getTask and one
\* of the two UPDATEs, and a statement of the other process may run between
\* them.

\* getTask(id): the row the SELECT returns, as a list of at most one row
getTask(S, id) == IF hasTask(S, id) THEN <<S.tasks[id]>> ELSE <<>>

\* the rest of failTask(id, error) once `task` has been read: the branch is
\* chosen on the row as it was read, the UPDATE (WHERE id = ?) increments the
\* retry_count the row has now
failTaskUpdate(S, id, error, task) ==
    IF task = <<>> THEN S
    ELSE IF task[1].retry_count < task[1].max_retries
    THEN logAudit(IF hasTask(S, id)
                  THEN [S EXCEPT !.tasks[id].status = "pending",
                                 !.tasks[id].retry_count = @ + 1,
                                 !.tasks[id].error = error]
                  ELSE S,
                  "task.retry", "task", id)
    ELSE logAudit(IF hasTask(S, id)
                  THEN [S EXCEPT !.tasks[id].status = "failed",
                                 !.tasks[id].error = error,
                                 !.tasks[id].completed_at = TS]
                  ELSE S,
                  "task.failed", "task", id)

\* catch (err) { this.goalStore.failTask(task.id, error): const task =
\* this.getTask(id)
FailTaskRead ==
    \E p \in DOMAIN exec :
        /\ exec[p].pc = "catch"
        /\ exec' = [exec EXCEPT ![p].pc = "failing",
                                ![p].read = getTask(db, exec[p].task)]
        /\ UNCHANGED <<db, last, calls, daemon, dec>>

\* ... the UPDATE and logAudit of failTask; return { success: false, ... }
FailTaskUpdate ==
    \E p \in DOMAIN exec, err \in Errors :
        /\ exec[p].pc = "failing"
        /\ db' = failTaskUpdate(db, exec[p].task, err, exec[p].read)
        /\ exec' = [exec EXCEPT ![p].pc = "push", ![p].success = FALSE,
                                ![p].read = <<>>]
        /\ UNCHANGED <<last, calls, daemon, dec>>

\* one goal with one task whose execution failed k times before
SeedFailedTimes(k) ==
    Attempts(addTask(addGoal(EmptyDb, DefaultPriority), 1, <<>>, FALSE), 1, k)

\* the locals of a processQueue(1) call that selected task #1, with the row
\* read by failTask
Selected ==
    [pc |-> "execute", maxTasks |-> 1, task |-> 1, processed |-> 1,
     completed |-> 0, failed |-> 0, results |-> <<>>, success |-> FALSE,
     chat |-> "none", commands |-> <<>>, attempted |-> <<>>, read |-> <<>>]

\* the task has no skill: execute() takes executeWithLLM
NextFailRace ==
    \/ ExecuteStart
    \/ ExecuteWithLLM
    \/ ExecuteComplete
    \/ ExecuteSave
    \/ FailTaskRead
    \/ FailTaskUpdate
    \/ ProcessQueuePush
    \/ ProcessQueueLoop

\* both processes have selected the pending task #1 (each getNextTask() ran
\* before the other's startTask) and neither has started it yet
InitFailRace ==
    /\ db \in {SeedFailedTimes(k) : k \in 0 .. DefaultMaxRetries}
    /\ last = Call("open", 0, "", 0)
    /\ calls = 0
    /\ exec = [p \in {1, 2} |-> Selected]
    /\ daemon = NoDaemon
    /\ dec = NoDecomposer

SpecFailRace == InitFailRace /\ [][NextFailRace]_vars

\* ------------------------------------------------ goal run, again and again
\* `goal run` is issued again whenever the process of the earlier one is
\* gone. A process may end while it awaits the reasoning call of a task
\* (interrupt from the terminal, kill, loss of the host): nothing in execute
\* runs then, neither the rest of the try nor the catch.

\* the process ends during `result = await this.executeWithLLM(task)`
ProcessEnds ==
    \E p \in DOMAIN exec :
        /\ exec[p].pc = "run"
        /\ exec' = [exec EXCEPT ![p] = [NewQueue(exec[p].maxTasks)
                                           EXCEPT !.pc = "ended"]]
        /\ UNCHANGED <<db, last, calls, daemon, dec>>

\* goal run --max n: a new TaskExecutor and a new processQueue(n) call; the
\* locals of the earlier call are gone with its process
GoalRun ==
    \E p \in DOMAIN exec, n \in BatchSizes :
        /\ exec[p].pc \in {"returned", "ended"}
        /\ exec' = [exec EXCEPT ![p] = NewQueue(n)]
        /\ UNCHANGED <<db, last, calls, daemon, dec>>

\* the statements of a live process (tasks without skill)
ProcessStep ==
    \/ ProcessQueueLoop
    \/ ExecuteStart
    \/ ExecuteWithLLM
    \/ ExecuteComplete
    \/ ExecuteSave
    \/ ExecuteCatch
    \/ ProcessQueuePush

NextRerun ==
    \/ ProcessStep
    \/ ProcessEnds
    \/ GoalRun

InitRerun ==
    /\ db \in {SeedTwoTasks, SeedRetried}
    /\ last = Call("open", 0, "", 0)
    /\ calls = 0
    /\ exec \in {[p \in {1} |-> NewQueue(n)] : n \in BatchSizes}
    /\ daemon = NoDaemon
    /\ dec = NoDecomposer

\* a live process goes on running, and processQueue is called again and
\* again; the end of a process is not forced
SpecRerun ==
    /\ InitRerun
    /\ [][NextRerun]_vars
    /\ WF_vars(ProcessStep)
    /\ WF_vars(GoalRun)

\* ---------------------------------------------------------------- C11
IsFailRow(r, t) ==
    /\ r.entity_type = "task"
    /\ r.entity_id = t
    /\ r.event_type \in {"task.retry", "task.failed"}

Settled(f) == f.pc \in {"done", "thrown"}

\* Whenever failTask is applied, it is applied by an invocation entering its
\* catch, to the task that invocation selected; no invocation is entered and
\* no task is started in that step. An invocation in its catch selects
\* nothing more: it only ends. (A step that ends the process writes nothing.)
C11_Step ==
    \/ /\ daemon'.phase = "exited"
       /\ db' = db
    \/ /\ (\E k \in 1..Len(NewRows) :
               NewRows[k].event_type \in {"task.retry", "task.failed"})
             => /\ Len(daemon'.frames) = Len(daemon.frames)
                /\ StartedIds(NewRows) = <<>>
                /\ \E i \in 1..Len(daemon.frames) :
                      /\ daemon.frames[i].pc # "log3"
                      /\ daemon'.frames[i].pc = "log3"
                      /\ \E k \in 1..Len(NewRows) :
                            IsFailRow(NewRows[k], daemon.frames[i].task)
       /\ \A i \in 1..Len(daemon.frames) :
             /\ (daemon.frames[i].pc # "log3" /\ daemon'.frames[i].pc = "log3")
                   => \E k \in 1..Len(NewRows) :
                         IsFailRow(NewRows[k], daemon.frames[i].task)
             /\ daemon.frames[i].pc = "log3"
                   => /\ daemon'.frames[i].pc \in {"log3", "done", "thrown"}
                      /\ daemon'.frames[i].task = daemon.frames[i].task
                      /\ \A j \in 1..Len(daemon'.frames) :
                            daemon'.frames[j].parent = i => j <= Len(daemon.frames)

\* the first failTask row of the run is for task t and no startTask row of
\* another task precedes it
FailedFirst(t) ==
    \E k \in 1..Len(RunRows) :
        /\ IsFailRow(RunRows[k], t)
        /\ \A j \in 1..(k - 1) :
              RunRows[j].event_type = "task.started"
                 => RunRows[j].entity_id = t

\* Two eligible tasks, one invocation (the initial pass, no trigger fired):
\* if the first task fails, only it was executed and the second is still
\* pending when the invocation has returned.
C11_Scenario ==
    (/\ StartedFrom(SeedTwoTasks)
     /\ db.tasks[2].depends_on = <<>>
     /\ daemon.phase = "ready"
     /\ TopLevel = {1}
     /\ \A i \in 1..Len(daemon.frames) : Settled(daemon.frames[i])
     /\ FailedFirst(1))
        => /\ StartedIds(RunRows) = <<1>>
           /\ db.tasks[2].status = "pending"
           /\ db.tasks[2].started_at = NULL

\* C11: daemon fail-stop: in one processGoalQueue invocation, as soon as the
\* processing of the selected task fails, failTask is applied to it and the
\* invocation ends without selecting or starting any further task; with two
\* eligible tasks of which the first fails, only the first is executed and
\* the second is still pending when the invocation returns.
C11_FailStop == []C11_Scenario /\ [][C11_Step]_vars

\* the initial pass failed on task 1 and returned; task 2 was never started
C11_Witness ==
    /\ StartedFrom(SeedTwoTasks)
    /\ db.tasks[2].depends_on = <<>>
    /\ daemon.phase = "ready"
    /\ TopLevel = {1}
    /\ daemon.frames[1].pc = "done"
    /\ daemon.frames[1].task = 1
    /\ FailedFirst(1)
    /\ db.tasks[2].status = "pending"

\* ---------------------------------------------------------------- C18
\* an invocation that selected a task and applied neither completeTask nor
\* failTask to it yet
InFlight(f) == f.pc = "log1"

\* C18: within one daemon process no two tasks are in flight at the same
\* time, and no task is selected by a second processGoalQueue invocation
\* while an earlier one has selected it and not yet completed or failed it.
C18_Sequential ==
    \A i, j \in 1..Len(daemon.frames) :
        (InFlight(daemon.frames[i]) /\ InFlight(daemon.frames[j])) => i = j

\* ========================================================== GoalDecomposer
\* decomposeAndCreate(goal) on one reasoning response. A storage error
\* aborts any call that meets it and is left out here, as for the Store
\* operations; what the response can cause is modelled.

\* longest tasks array of a response
MaxPlan == 2

\* dependsOnIndex entries: positions of the array, and -1 and MaxPlan, which
\* are positions of no array
IndexRange == (0 - 1)..MaxPlan

DepIndexLists ==
    {<<>>} \cup {<<a>> : a \in IndexRange}
           \cup {<<a, b>> : a \in IndexRange, b \in IndexRange}

\* An element of the tasks array: null, or an object whose dependsOnIndex is
\* an array of numbers or (against the prompt) a non-zero number.
TaskEntries ==
    {[value |-> "null", depsType |-> "array", dependsOnIndex |-> <<>>,
      requiresApproval |-> FALSE]}
    \cup {[value |-> "object", depsType |-> "array", dependsOnIndex |-> d,
           requiresApproval |-> FALSE] : d \in DepIndexLists}
    \cup {[value |-> "object", depsType |-> "array", dependsOnIndex |-> d,
           requiresApproval |-> TRUE] : d \in {<<>>, <<0>>}}
    \cup {[value |-> "object", depsType |-> "number", dependsOnIndex |-> <<>>,
           requiresApproval |-> FALSE]}

Plans ==
    UNION {[1..n -> TaskEntries] : n \in 0..MaxPlan}

\* The text JSON.parse is given: not JSON at all, or the JSON text of null,
\* of a number or string, of an array, or of an object; an object has no
\* tasks field, a tasks field that is no array, or a tasks array.
Bodies ==
    {[json |-> j, tasksType |-> "absent", tasks |-> <<>>] :
        j \in {"invalid", "null", "scalar", "array", "object"}}
    \cup {[json |-> "object", tasksType |-> "other", tasks |-> <<>>]}
    \cup {[json |-> "object", tasksType |-> "array", tasks |-> p] : p \in Plans}

\* How the response carries the text: alone, alone in a code fence, in a
\* code fence with prose around it, or in prose without a fence
Layouts == {"bare", "fenced", "fencedInProse", "prose"}

Responses == [layout : Layouts, body : Bodies]

\* jsonStr: the first fenced block if there is one, else the whole content
\* (which is no JSON when prose surrounds the text)
jsonStr(content) ==
    IF content.layout = "prose"
    THEN [json |-> "invalid", tasksType |-> "absent", tasks |-> <<>>]
    ELSE content.body

FallbackTask ==
    [depsType |-> "absent", dependsOnIndex |-> <<>>, requiresApproval |-> TRUE]

\* (variant) a fallback task that needs no approval
parseResponse_openFallback(content) ==
    LET j == jsonStr(content)
    IN IF /\ j.json = "object"
          /\ j.tasksType = "array"
          /\ \A i \in 1..Len(j.tasks) : j.tasks[i].value # "null"
       THEN [fallback |-> FALSE,
             tasks |-> [i \in 1..Len(j.tasks) |->
                          [depsType |-> j.tasks[i].depsType,
                           dependsOnIndex |-> j.tasks[i].dependsOnIndex,
                           requiresApproval |-> j.tasks[i].requiresApproval]]]
       ELSE [fallback |-> TRUE,
             tasks |-> <<[FallbackTask EXCEPT !.requiresApproval = FALSE]>>]

\* JSON.parse throws on text that is no JSON; parsed.tasks throws on null;
\* a tasks that is no array throws 'Response missing tasks array'; t.title
\* throws on a null element: every one of them ends in the catch, which
\* returns the single manual task.
parseResponse(content) ==
    LET j == jsonStr(content)
    IN IF /\ j.json = "object"
          /\ j.tasksType = "array"
          /\ \A i \in 1..Len(j.tasks) : j.tasks[i].value # "null"
       THEN [fallback |-> FALSE,
             tasks |-> [i \in 1..Len(j.tasks) |->
                          [depsType |-> j.tasks[i].depsType,
                           dependsOnIndex |-> j.tasks[i].dependsOnIndex,
                           requiresApproval |-> j.tasks[i].requiresApproval]]]
       ELSE [fallback |-> TRUE, tasks |-> <<FallbackTask>>]

\* (variant) the listed positions themselves are stored
resolve_literal(indexToId, deps) ==
    LET Known(x) == x \in DOMAIN indexToId
    IN SelectSeq(deps, Known)

\* for (const depIdx of taskDef.dependsOnIndex) { depId =
\* indexToId.get(depIdx); if (depId !== undefined) dependsOn.push(depId) }
RECURSIVE resolve(_, _)
resolve(indexToId, deps) ==
    IF deps = <<>> THEN <<>>
    ELSE (IF Head(deps) \in DOMAIN indexToId
          THEN <<indexToId[Head(deps)]>> ELSE <<>>)
         \o resolve(indexToId, Tail(deps))

\* task 1 of the goal has failed for good
SeedFailed == Attempts(SeedRetried, 1, 2)

DecSeeds == {SeedGoals, SeedFailed}

\* result = await this.decompose(goal)
Decompose ==
    /\ dec.pc = "decompose"
    /\ dec' = [dec EXCEPT !.pc = "insert",
                          !.result = parseResponse(dec.content)]
    /\ UNCHANGED <<db, last, calls, exec, daemon>>

\* one round of the for loop; iterating a number throws a TypeError that
\* nothing catches
DecomposeInsert ==
    /\ dec.pc = "insert"
    /\ dec.i < Len(dec.result.tasks)
    /\ LET taskDef == dec.result.tasks[dec.i + 1]
       IN IF taskDef.depsType = "number"
          THEN /\ dec' = [dec EXCEPT !.pc = "thrown"]
               /\ db' = db
          ELSE /\ db' = addTask(db, dec.goal,
                                resolve(dec.indexToId, taskDef.dependsOnIndex),
                                taskDef.requiresApproval)
               /\ dec' = [dec EXCEPT
                     !.indexToId = Put(@, dec.i, db.taskSeq + 1),
                     !.createdTasks = Append(@, db.taskSeq + 1),
                     !.i = @ + 1]
    /\ UNCHANGED <<last, calls, exec, daemon>>

\* this.memoryStore.save(...); return createdTasks
DecomposeSave ==
    /\ dec.pc = "insert"
    /\ dec.i = Len(dec.result.tasks)
    /\ db' = save(db)
    /\ dec' = [dec EXCEPT !.pc = "returned"]
    /\ UNCHANGED <<last, calls, exec, daemon>>

\* afterwards the user approves a created task that waits for approval
ApproveCreated ==
    /\ dec.pc = "returned"
    /\ \E t \in Range(dec.createdTasks) :
          /\ db.tasks[t].requires_approval
          /\ db.tasks[t].approved_at = NULL
          /\ db' = approveTask(db, t)
    /\ UNCHANGED <<last, calls, exec, daemon, dec>>

NextDecomp ==
    \/ Decompose
    \/ DecomposeInsert
    \/ DecomposeSave
    \/ ApproveCreated

InitDecomp ==
    /\ db \in DecSeeds
    /\ last = Call("open", 0, "", 0)
    /\ calls = 0
    /\ exec = NoExecutor
    /\ daemon = NoDaemon
    /\ dec \in {[pc |-> "decompose", goal |-> 1, content |-> r,
                 result |-> [fallback |-> FALSE, tasks |-> <<>>],
                 i |-> 0, indexToId |-> <<>>, createdTasks |-> <<>>] :
                r \in Responses}

SpecDecomp == InitDecomp /\ [][NextDecomp]_vars

\* ---------------------------------------------------------------- C14
\* ids of the tasks at the positions listed in deps that come before
\* position i (positions count from 0), in the order listed
RECURSIVE EarlierIds(_, _, _)
EarlierIds(deps, i, created) ==
    IF deps = <<>> THEN <<>>
    ELSE (IF Head(deps) \in 0..(i - 1)
          THEN <<created[Head(deps) + 1]>> ELSE <<>>)
         \o EarlierIds(Tail(deps), i, created)

C14_Inserted ==
    dec.pc \in {"insert", "returned"} =>
        LET created == dec.createdTasks
            n == Len(created)
        IN /\ n = dec.i
           /\ dec.pc = "returned" => n = Len(dec.result.tasks)
           /\ n > 0 => DOMAIN db.tasks = 1..(created[1] + n - 1)
           /\ \A k \in 1..n :
                 /\ created[k] = created[1] + k - 1
                 /\ db.tasks[created[k]].goal_id = dec.goal
                 /\ db.tasks[created[k]].requires_approval
                       = dec.result.tasks[k].requiresApproval
                 /\ db.tasks[created[k]].depends_on
                       = EarlierIds(dec.result.tasks[k].dependsOnIndex,
                                    k - 1, created)

\* only a dependsOnIndex that is no list makes the call throw
C14_NoError ==
    dec.pc = "thrown" =>
        \E k \in 1..Len(dec.result.tasks) :
            dec.result.tasks[k].depsType = "number"

\* C14: decomposeAndCreate inserts one task per entry of the parsed tasks
\* array, in array order, and returns them in that order; the task at
\* position i depends on the assigned ids of the tasks at the positions
\* j < i listed in its dependsOnIndex (never the positions themselves);
\* listed positions j >= i or out of range are dropped without error.
C14_ArrayOrder == C14_Inserted /\ C14_NoError

\* [A, B(dependsOnIndex = [0])] was created: B depends on A's id, not on 0
C14_Witness ==
    /\ dec.pc = "returned"
    /\ ~dec.result.fallback
    /\ Len(dec.result.tasks) = 2
    /\ dec.result.tasks[1].dependsOnIndex = <<>>
    /\ dec.result.tasks[2].dependsOnIndex = <<0>>
    /\ dec.createdTasks[1] = 2
    /\ db.tasks[dec.createdTasks[2]].depends_on = <<dec.createdTasks[1]>>

\* ---------------------------------------------------------------- C15
\* the text handed to JSON.parse is no JSON, or its value has no tasks array
Degraded(content) ==
    \/ jsonStr(content).json = "invalid"
    \/ jsonStr(content).tasksType # "array"

C15_OneGatedTask ==
    (dec.pc # "idle" /\ Degraded(dec.content)) =>
        /\ dec.pc # "thrown"
        /\ Len(dec.createdTasks) <= 1
        /\ dec.pc = "returned" =>
              /\ Len(dec.createdTasks) = 1
              /\ LET t == dec.createdTasks[1]
                 IN /\ DOMAIN db.tasks = 1..t
                    /\ db.tasks[t].requires_approval
                    /\ db.tasks[t].depends_on = <<>>
                    /\ db.tasks[t].approved_at = NULL => getNextTask(db) # t

C15_Step ==
    (/\ dec.pc = "returned"
     /\ Degraded(dec.content)
     /\ getNextTask(db) # dec.createdTasks[1]
     /\ getNextTask(db') = dec.createdTasks[1])
        => /\ approveTaskResult(db, dec.createdTasks[1])
           /\ db' = approveTask(db, dec.createdTasks[1])

\* C15: for every response whose text is no parseable JSON, or whose parsed
\* value has no array-valued tasks field, decomposeAndCreate raises no
\* exception and creates exactly one task, with requires_approval = true
\* and no dependencies; getNextTask() does not return that task until
\* approveTask has succeeded on it.
C15_Degradation == []C15_OneGatedTask /\ [][C15_Step]_vars

\* prose without JSON gave one gated task; approved, it is the next task
C15_Witness ==
    /\ dec.pc = "returned"
    /\ dec.content.layout = "prose"
    /\ Len(dec.createdTasks) = 1
    /\ db.tasks[dec.createdTasks[1]].requires_approval
    /\ db.tasks[dec.createdTasks[1]].approved_at = TS
    /\ getNextTask(db) = dec.createdTasks[1]

\* ---------------------------------------------------------------- C21
\* the session's next Store call is op
Calls(op) == calls' = calls + 1 /\ last'.op = op

C21_Step ==
    Calls("approveTask") =>
        LET id == last'.id
            gated == id \in DOMAIN db.tasks /\ db.tasks[id].requires_approval
        IN /\ last'.ret = Bit(gated)
           /\ ~gated => db' = db
           /\ gated =>
                /\ db'.tasks[id].approved_at = TS
                /\ db'.tasks[id].status = "queued"
                /\ db'.audit = Append(db.audit,
                                  AuditRow("task.approved", "task", id))
                /\ db'.goals = db.goals
                /\ \A t \in DOMAIN db.tasks \ {id} : db'.tasks[t] = db.tasks[t]

\* C21: approveTask(id) on a task with requires_approval = false, or on an
\* id of no task, returns false, changes no field of any task and appends no
\* audit row; it returns true only when it set approved_at and status =
\* queued and appended one task.approved row.
C21_ApproveContract == [][C21_Step]_vars

\* approveTask was refused on an existing task that needs no approval
C21_Witness ==
    /\ last.op = "approveTask"
    /\ last.ret = 0
    /\ last.id \in DOMAIN db.tasks
    /\ ~db.tasks[last.id].requires_approval
    /\ db.tasks[last.id].approved_at = NULL

\* ---------------------------------------------------------------- C24
C24_Step ==
    Calls("removeGoal") =>
        LET id == last'.id
        IN /\ last'.ret = Bit(id \in DOMAIN db.goals)
           /\ last'.ret = 0 => db' = db
           /\ last'.ret = 1 =>
                /\ id \notin DOMAIN db'.goals
                /\ \A t \in DOMAIN db'.tasks : db'.tasks[t].goal_id # id
                /\ \A g \in DOMAIN db.goals \ {id} :
                      g \in DOMAIN db'.goals /\ db'.goals[g] = db.goals[g]
                /\ \A t \in DOMAIN db.tasks :
                      db.tasks[t].goal_id # id
                         => t \in DOMAIN db'.tasks /\ db'.tasks[t] = db.tasks[t]

\* C24: after removeGoal(id) returns true the goal and every task with
\* goal_id = id are gone and the tasks of other goals are unchanged;
\* removeGoal on an id of no goal returns false and changes nothing.
C24_RemoveCascades == [][C24_Step]_vars

\* a goal was removed with its task; the task of the other goal is left
C24_Witness ==
    /\ last.op = "removeGoal"
    /\ last.ret = 1
    /\ db.taskSeq = 2
    /\ Cardinality(DOMAIN db.tasks) = 1
    /\ \A t \in DOMAIN db.tasks : db.tasks[t].goal_id # last.id

\* ---------------------------------------------------------------- C25
ExecPcs ==
    {"loop", "execute", "run", "commands", "metric", "complete", "save",
     "fail", "catch", "push", "returned"}

C25_Step ==
    \A p \in DOMAIN exec :
        LET f == exec[p]
            g == exec'[p]
        IN /\ g.pc \in ExecPcs
           \* a reasoning error: caught in executeWithSkill, or thrown by
           \* executeWithLLM into the catch of execute
           /\ (f.pc = "run" /\ g.pc = "metric") => ~g.success
           /\ (f.pc = "run" /\ g # f) =>
                 g.pc \in {"complete", "commands", "metric", "catch"}
           \* a failing command
           /\ (f.pc = "commands" /\ Len(g.attempted) > Len(f.attempted)
                 /\ f.commands[Len(g.attempted)] = "failed") => ~g.success
           /\ (f.pc = "commands" /\ g.pc = "metric") => g.success = f.success
           /\ (f.pc = "metric" /\ ~f.success /\ g # f) =>
                 g.pc \in {"fail", "catch"}
           \* execute applies failTask and returns success false
           /\ (f.pc \in {"fail", "catch"} /\ g # f) =>
                 /\ g.pc = "push"
                 /\ ~g.success
                 /\ \E err \in Errors : db' = failTask(db, f.task, err)
                 /\ f.task \in DOMAIN db.tasks =>
                       \E k \in 1..Len(NewRows) : IsFailRow(NewRows[k], f.task)
           \* the batch loop records the failure and goes on
           /\ (f.pc = "push" /\ ~f.success /\ g # f) =>
                 /\ g.pc = "loop"
                 /\ g.failed = f.failed + 1
           /\ (f.pc = "loop" /\ g.pc = "returned") =>
                 (f.processed = f.maxTasks \/ getNextTask(db) = 0)

\* C25: a transport or timeout error of the reasoning call, or a failing
\* shell command, never leaves execute or processQueue as an exception:
\* execute applies failTask to the task and returns success false, so the
\* failure feeds the retry policy and the batch loop continues.
C25_FailuresRecovered == [][C25_Step]_vars

\* a command failed: the task went back to pending, execute returns false
C25_Witness ==
    /\ DOMAIN exec = {1}
    /\ exec[1].pc = "push"
    /\ ~exec[1].success
    /\ exec[1].commands = <<"ok", "failed">>
    /\ exec[1].attempted = <<1, 2>>
    /\ db.tasks[exec[1].task].status = "pending"
    /\ IsFailRow(db.audit[Len(db.audit)], exec[1].task)

\* ---------------------------------------------------------------- C26
C26_SkillRun ==
    \A p \in DOMAIN exec :
        LET f == exec[p]
            n == Len(f.attempted)
        IN /\ f.pc = "commands" =>
                /\ f.chat = "returned"
                /\ n <= Len(f.commands)
                /\ f.attempted = [k \in 1..n |-> k]
                /\ f.success <=> \A k \in 1..n : f.commands[k] = "ok"
           /\ f.pc = "metric" =>
                /\ f.attempted = [k \in 1..Len(f.commands) |-> k]
                /\ ~f.success <=>
                      \/ f.chat = "throw"
                      \/ \E k \in 1..Len(f.commands) : f.commands[k] = "failed"
                /\ (f.chat = "returned" /\ f.commands = <<>>) => f.success

\* C26: in skill-guided execution every extracted command is attempted, in
\* extraction order, whatever earlier commands did; the success flag is
\* false iff the reasoning call threw or at least one command failed, and
\* true when the call returned and no command was extracted. Comments and
\* empty lines of a block are no commands.
C26_SkillCommands ==
    /\ C26_SkillRun
    /\ \A c \in Contents :
          /\ \A k \in 1..Len(extractCommands(c)) :
                extractCommands(c)[k] \in {"ok", "failed"}
          /\ Len(c) = 2 =>
                extractCommands(c) =
                   extractCommands(<<c[1]>>) \o extractCommands(<<c[2]>>)

\* the first command failed and the second was still attempted
C26_Witness ==
    /\ DOMAIN exec = {1}
    /\ exec[1].pc = "metric"
    /\ exec[1].commands = <<"failed", "ok">>
    /\ exec[1].attempted = <<1, 2>>
    /\ ~exec[1].success

\* ---------------------------------------------------------------- C27
\* execute applies failTask to a task that has retries left
FailsWithRetriesLeft(p) ==
    /\ exec[p].pc \in {"fail", "catch"}
    /\ exec'[p].pc = "push"
    /\ exec[p].task \in DOMAIN db.tasks
    /\ db.tasks[exec[p].task].retry_count < db.tasks[exec[p].task].max_retries

\* C27: after failTask on a task with retry_count < max_retries the task is
\* eligible again at once and keeps its place in the order: the very next
\* getNextTask() returns that same task, so processQueue re-attempts it
\* before any task ranked after it.
C27_RetriedNext ==
    [][\A p \in DOMAIN exec :
          FailsWithRetriesLeft(p) =>
              /\ Eligible(db', exec[p].task)
              /\ getNextTask(db') = exec[p].task]_vars

\* ---------------------------------------------------------------- C28
NonCompleted(S) == {t \in DOMAIN S.tasks : S.tasks[t].status # "completed"}

\* the task.started row written last, 0 if there is none
LastStartRow(S) ==
    LET at == {i \in 1..Len(S.audit) : S.audit[i].event_type = "task.started"}
    IN IF at = {} THEN 0 ELSE CHOOSE i \in at : \A j \in at : j <= i

\* failTask was applied to the task started last, after that start
LastExecutedFailed(S) ==
    /\ LastStartRow(S) # 0
    /\ \E k \in (LastStartRow(S) + 1)..Len(S.audit) :
          IsFailRow(S.audit[k], S.audit[LastStartRow(S)].entity_id)

\* only the invocation entered first and the ones it awaits exist
OneInvocation(frames) ==
    \A i \in 1..Len(frames) : frames[i].parent = i - 1

C28_Step ==
    (/\ OneInvocation(daemon.frames)
     /\ OneInvocation(daemon'.frames)
     /\ daemon'.phase # "exited") =>
        LET old == daemon.frames
            new == daemon'.frames
        IN \* an invocation that finds no task returns at once, writing nothing
           /\ (old = <<>> /\ new # <<>>) =>
                 /\ db' = db
                 /\ new[1].pc = (IF getNextTask(db) = 0 THEN "done" ELSE "log1")
           /\ \A j \in (Len(old) + 1)..Len(new) :
                 new[j].task = 0 => new[j].pc = "done"
           \* it recurses only after completeTask succeeded
           /\ \A j \in (Len(old) + 1)..Len(new) :
                 j > 1 =>
                    /\ old[j - 1].pc = "log2"
                    /\ db.tasks[old[j - 1].task].status = "completed"
                    /\ new[j].task # old[j - 1].task
           /\ \A i \in 1..Len(old) :
                 (old[i].pc = "log1" /\ new[i].pc = "log2") =>
                    /\ db'.tasks[old[i].task].status = "completed"
                    /\ NonCompleted(db') = NonCompleted(db) \ {old[i].task}
                    /\ old[i].task \in NonCompleted(db)
           \* when it returns, the last task failed or nothing is eligible
           /\ (old # <<>> /\ old[1].pc # "done" /\ new[1].pc = "done") =>
                 \/ getNextTask(db') = 0
                 \/ LastExecutedFailed(db')

\* the invocations of one call handle pairwise distinct tasks, so their
\* number is bounded by the number of tasks
C28_Bounded ==
    OneInvocation(daemon.frames) =>
        /\ \A i, j \in 1..Len(daemon.frames) :
              (daemon.frames[i].task # 0
                  /\ daemon.frames[i].task = daemon.frames[j].task) => i = j
        /\ Len(daemon.frames) <= Cardinality(DOMAIN db.tasks) + 1
        /\ \A i \in 1..Len(daemon.frames) :
              i < Len(daemon.frames) =>
                 daemon.frames[i].pc \in {"drain", "log3", "done", "thrown"}

\* C28: one processGoalQueue invocation (no other invocation, no other
\* process) terminates: it returns at once without a write when no task is
\* eligible, it recurses only after a completeTask that takes one task out
\* of the non-completed ones, so the chain of nested invocations is bounded
\* by the number of tasks, and when it returns either the task executed
\* last failed or getNextTask() is null.
C28_Terminates == []C28_Bounded /\ [][C28_Step]_vars

\* two tasks drained by one invocation: the third nested call found the
\* queue empty and all three returned
C28_Witness ==
    /\ Len(daemon.frames) = 3
    /\ OneInvocation(daemon.frames)
    /\ \A i \in 1..3 : daemon.frames[i].pc = "done"
    /\ daemon.frames[3].task = 0
    /\ NonCompleted(db) = {}

\* ---------------------------------------------------------------- C22
\* the step is a call of op that the call record shows
Invoked(op) == last' # last /\ last'.op = op

C22_Step ==
    \* the flag is set by start() only and cleared by shutdown() only
    /\ (~daemon.running /\ daemon'.running) =>
          daemon.phase = "off" /\ daemon'.phase # "off"
    /\ (daemon.running /\ ~daemon'.running) =>
          daemon.stopping = "log" /\ daemon'.stopping = "closing"
    /\ daemon.phase # "off" => daemon'.phase # "off"
    /\ daemon.phase = "exited" =>
          daemon' = [daemon EXCEPT !.pidFile = daemon'.pidFile]
    \* start() while running does nothing
    /\ Invoked("daemon.start") =>
          /\ daemon.running
          /\ daemon' = daemon
          /\ db' = db
    \* triggers, timers and handlers are registered by the one start() only
    /\ (daemon.phase \in {"initial", "ready"} /\ daemon'.phase # "exited") =>
          /\ daemon'.cronJobs = daemon.cronJobs
          /\ daemon'.fileWatchers = daemon.fileWatchers
          /\ daemon'.initial = daemon.initial
          /\ daemon.signals => daemon'.signals
          /\ daemon'.heartbeatTimer => daemon.heartbeatTimer
    \* DaemonManager.start() forks only if the marker names no live process
    /\ Invoked("manager.start") =>
          IF MarkerLive
          THEN /\ daemon' = daemon
               /\ last'.id = daemon.pidFile
               /\ last'.ret = 0
          ELSE /\ last'.ret = 1
               /\ daemon.pid = 0
               /\ daemon'.pid = last'.id
               /\ daemon'.pidFile = last'.id

\* C22: the running flag goes from false to true in start() only and from
\* true to false in shutdown() only; start() called while running registers
\* no trigger, timer or signal handler and runs no queue pass;
\* DaemonManager.start() called while the pid file names a live process
\* forks nothing and returns that pid.
C22_Lifecycle == [][C22_Step]_vars

\* start() was called again in the running daemon
C22_Witness ==
    /\ last = Call("daemon.start", 1, "", 0)
    /\ daemon.phase = "ready"
    /\ daemon.running
    /\ daemon.cronJobs # <<>>
    /\ daemon.heartbeatTimer
    /\ daemon.signals
    /\ Len(daemon.frames) = 1

\* ---------------------------------------------------------------- C29
C29_Timers ==
    \A k \in 1..Len(daemon.timers) :
        /\ Cardinality(daemon.timers[k]) <= 1
        /\ daemon.timers[k] # {} =>
              /\ daemon.timers[k] = {Window - daemon.since[k]}
              /\ daemon.events[k] >= 1
              /\ daemon.fires[k] = 0
        /\ daemon.timers[k] = {} =>
              /\ daemon.since[k] = Window
              /\ daemon.fires[k] = (IF daemon.events[k] = 0 THEN 0 ELSE 1)

C29_Step ==
    \A k \in 1..Len(daemon.timers) :
        daemon'.phase # "exited" =>
           \* a change event restarts the timer and invokes nothing
           /\ (daemon'.events[k] # daemon.events[k]
                  \/ daemon'.since[k] < daemon.since[k]) =>
                 /\ daemon'.timers[k] = {Window}
                 /\ daemon'.frames = daemon.frames
           \* the action is invoked a full window after the last event
           /\ daemon'.fires[k] > daemon.fires[k] =>
                 /\ daemon.since[k] = Window
                 /\ daemon'.timers[k] = {}
                 /\ Len(daemon'.frames) = Len(daemon.frames) + 1
                 /\ daemon'.frames[Len(daemon'.frames)].parent = 0

\* C29: each change event of a file.changed trigger cancels the pending
\* timer and starts a new one, so a burst of change events, each less than
\* the window after the one before, invokes the action exactly once, one
\* window after the last event of the burst and never while a further
\* change arrives inside the window.
C29_Debounce == []C29_Timers /\ [][C29_Step]_vars

\* a burst of two change events has invoked the action once
C29_Witness ==
    /\ Len(daemon.timers) = 1
    /\ daemon.timers[1] = {}
    /\ daemon.events[1] = 2
    /\ daemon.fires[1] = 1
    /\ daemon.frames # <<>>

\* ---------------------------------------------------------------- C30
IsCronJob(t) == t.event \in {"cron", "goal.check"} /\ t.armed
IsWatcher(t) == t.event = "file.changed" /\ t.armed
Recognized(t) == t.event \in {"cron", "goal.check", "file.changed"}

\* while the entries are registered, the jobs and watchers are those of the
\* entries handled so far, in their order
C30_Registered ==
    daemon.phase = "register" =>
        LET done == SubSeq(daemon.triggers, 1, daemon.next)
        IN /\ daemon.cronJobs = SelectSeq(done, IsCronJob)
           /\ daemon.fileWatchers = SelectSeq(done, IsWatcher)
           /\ daemon.running

C30_Step ==
    \* start() is rejected by a throwing pass only
    /\ (daemon'.phase = "exited" /\ daemon.phase # "exited") =>
          daemon'.exit \in {"pass", "shutdown", "SIGTERM"}
    \* after the log line for an entry of no known type the loop goes on
    /\ (/\ daemon.phase = "register"
        /\ ~Recognized(daemon.triggers[daemon.next])
        /\ daemon'.phase # "exited"
        /\ daemon'.phase # "register" \/ daemon'.next # daemon.next) =>
          LET upto == IF daemon'.phase = "register" THEN daemon'.next
                      ELSE Len(daemon.triggers)
              rest == SubSeq(daemon.triggers, daemon.next + 1, upto)
          IN /\ daemon'.phase \in {"register", "initial", "ready"}
             /\ daemon'.running
             /\ daemon'.cronJobs = daemon.cronJobs \o SelectSeq(rest, IsCronJob)
             /\ daemon'.fileWatchers =
                   daemon.fileWatchers \o SelectSeq(rest, IsWatcher)
             /\ daemon'.phase # "register" =>
                   /\ daemon'.heartbeatTimer
                   /\ daemon'.initial = Len(daemon.frames) + 1
                   /\ Len(daemon'.frames) = Len(daemon.frames) + 1

\* C30: during start a trigger of an unrecognized type registers no timer
\* and no watcher and raises no error: the recognized triggers after it are
\* registered, the initial pass runs, and the daemon is running.
C30_UnknownSkipped == []C30_Registered /\ [][C30_Step]_vars

\* the entry after one of an unknown type has been registered
C30_Witness ==
    /\ daemon.phase = "register"
    /\ Len(daemon.triggers) = 2
    /\ daemon.triggers[1].event = "webhook"
    /\ daemon.next = 2
    /\ daemon.cronJobs = <<[event |-> "cron", armed |-> TRUE]>>


\* ---------------------------------------------------------------- C23
\* the eligible tasks of the urgent goal #2
UrgentEligible(S) ==
    {t \in DOMAIN S.tasks : S.tasks[t].goal_id = 2 /\ Eligible(S, t)}

\* task #1 of the less urgent goal #1 has never been selected: it is as it
\* was inserted
NeverSelected(S) ==
    /\ S.tasks[1].status = "pending"
    /\ S.tasks[1].started_at = NULL
    /\ S.tasks[1].retry_count = 0

\* While the urgent goal has an eligible task, getNextTask() returns one of
\* them, so the eligible task #1 of the less urgent goal is not returned.
C23_UrgentFirst ==
    UrgentEligible(db) # {} =>
        /\ getNextTask(db) \in UrgentEligible(db)
        /\ getNextTask(db) # 1

\* (a) processQueue selects task #1 only from a database in which the urgent
\* goal has no eligible task; (b) a task added to the urgent goal while it is
\* active is eligible at once and leaves task #1 as it was; (c) an urgent task
\* that completes while another urgent task is not completed leaves the urgent
\* goal active; (d) task #1 changes only in the hands of a process that
\* selected it.
C23_Step ==
    /\ \A p \in DOMAIN exec :
          (exec[p].pc = "loop" /\ exec'[p].pc = "execute" /\ exec'[p].task = 1)
              => UrgentEligible(db) = {}
    /\ (db'.taskSeq > db.taskSeq /\ db.goals[2].status = "active")
          => /\ db'.taskSeq \in UrgentEligible(db')
             /\ db'.tasks[1] = db.tasks[1]
             /\ db'.goals = db.goals
    /\ (db.goals[2].status = "active"
          /\ TasksOf(db', 2) # CompletedOf(db', 2))
          => db'.goals[2].status = "active"
    /\ db'.tasks[1] # db.tasks[1]
          => \E p \in DOMAIN exec : exec[p].task = 1

\* C23: starvation is possible. As long as tasks keep being added to the more
\* urgent active goal before its last task completes, every getNextTask() call
\* of the queue loop returns an urgent task and the eligible task of the less
\* urgent goal is never returned: no step of the scheduler ends the stream.
C23_Starvation == []C23_UrgentFirst /\ [][C23_Step]_vars

\* the queue loop is about to call getNextTask() for the third time: two
\* urgent tasks have been selected and completed, a later urgent task is
\* eligible and will be returned, and task #1, eligible since the start, has
\* never been selected
C23_Witness ==
    /\ exec[1].pc = "loop"
    /\ exec[1].processed = 2
    /\ Cardinality(CompletedOf(db, 2)) = 2
    /\ UrgentEligible(db) # {}
    /\ getNextTask(db) \in UrgentEligible(db)
    /\ Eligible(db, 1)
    /\ NeverSelected(db)


\* ---------------------------------------------------------------- C31
\* C31: retry_count <= max_retries holds for every task in every state two
\* processes can reach by interleaving the statements of their failTask calls
\* on a task both of them started.
C31_RaceBounded ==
    \A t \in DOMAIN db.tasks :
        db.tasks[t].retry_count <= db.tasks[t].max_retries


\* ---------------------------------------------------------------- C32
C32_Step ==
    Calls("approveTask") =>
        \A t \in DOMAIN db.tasks :
            db.tasks[t].status = "completed" =>
                /\ t \in DOMAIN db'.tasks
                /\ db'.tasks[t].status = "completed"
                /\ getNextTask(db') # t

\* C32: a completed task stays completed and is not returned by
\* getNextTask() again; here for the approve command of the command line,
\* which calls approveTask with the id it was given.
C32_CompletedStays == [][C32_Step]_vars


\* ---------------------------------------------------------------- C33
\* a step in which execute applies failTask (from the result.success = false
\* branch or from the catch) finds no task.completed row written for its
\* task since the startTask of this call
C33_Step ==
    \A p \in DOMAIN exec :
        (exec[p].pc \in {"fail", "catch"} /\ exec'[p].pc = "push") =>
            \A i \in OutcomeRows(exec[p].task) :
                db.audit[i].event_type # "task.completed"

\* C33: within one execute call failTask is never applied to a task on which
\* completeTask has already been applied in that call, whatever the steps
\* after completeTask do.
C33_NoFailAfterComplete == [][C33_Step]_vars


\* ---------------------------------------------------------------- C34
TaskOps == {"startTask", "completeTask", "failTask", "approveTask"}

\* the session's next Store call is a task operation; completeTask and
\* failTask are applied, as the executor and the daemon apply them, to a task
\* that is running
TaskOpCalled ==
    /\ calls' = calls + 1
    /\ last'.op \in TaskOps
    /\ last'.op \in {"completeTask", "failTask"} =>
          /\ last'.id \in DOMAIN db.tasks
          /\ db.tasks[last'.id].status = "running"

C34_Step ==
    TaskOpCalled =>
        \A g \in DOMAIN db.goals :
            db.goals[g].status \in {"paused", "cancelled"} =>
                /\ g \in DOMAIN db'.goals
                /\ db'.goals[g].status = db.goals[g].status

\* C34: no task operation (startTask, completeTask, failTask, approveTask)
\* changes the status of a goal that is paused or cancelled.
C34_PausedStays == [][C34_Step]_vars


\* ---------------------------------------------------------------- C35
IsRunning(t) == t \in DOMAIN db.tasks /\ db.tasks[t].status = "running"

\* C35: every task that enters status running eventually leaves it, also
\* when the process executing it ends, as long as processQueue keeps being
\* called.
C35_RunningLeaves ==
    \A t \in 1..2 : IsRunning(t) ~> ~IsRunning(t)


\* ---------------------------------------------------------------- C36
\* shutdown() has set this.running = false and the process still lives
ShutdownBegun ==
    Alive /\ ~daemon.running /\ daemon.stopping \in {"closing", "goodbye"}

\* the step applies startTask: it appends a task.started row
StartsTask ==
    \E i \in (Len(db.audit) + 1)..Len(db'.audit) :
        db'.audit[i].event_type = "task.started"

\* C36: once shutdown has begun (running set to false) the daemon starts no
\* further task, neither from a cron callback, nor from a debounce timer
\* that was pending, nor from a pass that was in progress.
C36_NoStartAfterShutdown == [][ShutdownBegun => ~StartsTask]_vars


\* ---------------------------------------------------------------- C37
\* C37: every task created by decomposeAndCreate depends only on tasks the
\* same call created before it: each id of its depends_on list is the id of
\* an existing task of the same goal, created earlier in the call, and
\* strictly smaller than its own id (so no self-dependency and no cycle),
\* whatever the dependsOnIndex lists hold.
C37_EarlierOnly ==
    dec.pc \in {"insert", "returned", "thrown"} =>
        \A k \in 1..Len(dec.createdTasks) :
            LET id == dec.createdTasks[k]
            IN /\ id \in DOMAIN db.tasks
               /\ \A d \in Range(db.tasks[id].depends_on) :
                     /\ d \in DOMAIN db.tasks
                     /\ d < id
                     /\ \E j \in 1..(k - 1) : dec.createdTasks[j] = d
                     /\ db.tasks[d].goal_id = db.tasks[id].goal_id

\* two tasks were created from a plan whose first entry lists itself and a
\* later position and whose second entry lists itself and the first: the
\* first depends on nothing, the second on the first only
C37_Witness ==
    /\ dec.pc = "returned"
    /\ Len(dec.createdTasks) = 2
    /\ dec.result.tasks[1].dependsOnIndex = <<0, 1>>
    /\ dec.result.tasks[2].dependsOnIndex = <<1, 0>>
    /\ db.tasks[dec.createdTasks[1]].depends_on = <<>>
    /\ db.tasks[dec.createdTasks[2]].depends_on = <<dec.createdTasks[1]>>


\* --------------------------------------------- from a plan to a done goal
\* `goal decompose 1` creates the tasks of goal #1 in a database that holds
\* no task; the approve command approves the gated ones; `goal run` is
\* issued again and again. No status call, no other addTask, no removeGoal.

\* the entries of the plans: well-formed, without dependencies or with the
\* first position listed
PlanEntries ==
    {e \in TaskEntries :
        /\ e.value = "object"
        /\ e.depsType = "array"
        /\ e.dependsOnIndex \in {<<>>, <<0>>}}

\* a response that parses to a plan of at least one entry, or one that does
\* not parse
PlanResponses ==
    {[layout |-> "bare",
      body |-> [json |-> "object", tasksType |-> "array", tasks |-> p]] :
        p \in UNION {[1..n -> PlanEntries] : n \in 1..MaxPlan}}
    \cup {[layout |-> "prose",
           body |-> [json |-> "invalid", tasksType |-> "absent",
                     tasks |-> <<>>]]}

\* the run of a task throws only while the task has retries left: no task
\* fails more than max_retries times
RunWithinRetries ==
    /\ ExecuteWithLLM
    /\ \A p \in DOMAIN exec :
          (exec[p].pc = "run" /\ exec'[p].pc = "catch") =>
              db.tasks[exec[p].task].retry_count
                  < db.tasks[exec[p].task].max_retries

\* the statements of a live `goal run` process under that condition
PlanStep ==
    \/ ProcessQueueLoop
    \/ ExecuteStart
    \/ RunWithinRetries
    \/ ExecuteComplete
    \/ ExecuteSave
    \/ ExecuteCatch
    \/ ProcessQueuePush

\* goal run (without --max), issued once decomposeAndCreate has returned: no
\* task is added while the queue is processed
RunAfterPlan ==
    /\ dec.pc = "returned"
    /\ GoalRun
    /\ \A p \in DOMAIN exec : exec'[p].maxTasks = DefaultBatch

\* the statements of decomposeAndCreate
DecompStep ==
    \/ Decompose
    \/ DecomposeInsert
    \/ DecomposeSave

NextPlan ==
    \/ DecompStep
    \/ ApproveCreated
    \/ PlanStep
    \/ RunAfterPlan

InitPlan ==
    /\ db = SeedGoals
    /\ last = Call("open", 0, "", 0)
    /\ calls = 0
    /\ exec = [p \in {1} |-> [NewQueue(DefaultBatch) EXCEPT !.pc = "returned"]]
    /\ daemon = NoDaemon
    /\ dec \in {[pc |-> "decompose", goal |-> 1, content |-> r,
                 result |-> [fallback |-> FALSE, tasks |-> <<>>],
                 i |-> 0, indexToId |-> <<>>, createdTasks |-> <<>>] :
                r \in PlanResponses}

\* the decomposition and every live process go on, every gated task is
\* approved in the end, and goal run keeps being issued
SpecPlan ==
    /\ InitPlan
    /\ [][NextPlan]_vars
    /\ WF_vars(DecompStep)
    /\ WF_vars(ApproveCreated)
    /\ WF_vars(PlanStep)
    /\ WF_vars(RunAfterPlan)

\* ---------------------------------------------------------------- C38
GoalDone ==
    /\ TasksOf(db, 1) # {}
    /\ \A t \in TasksOf(db, 1) : db.tasks[t].status = "completed"
    /\ db.goals[1].status = "completed"
    /\ db.goals[1].progress = Ratio(1, 1)

\* C38: a goal whose tasks were created by one decomposeAndCreate call, that
\* stays active and keeps its tasks, whose gated tasks are approved, whose
\* tasks fail at most max_retries times each and for which processQueue is
\* called again and again, eventually has every task completed and is itself
\* completed with progress 1.0.
C38_GoalCompletes == <>GoalDone


\* ---------------------------------------------------------------- C39
\* id d cannot satisfy a dependency for good: no task has it, or the task
\* is failed, cancelled or blocked
Dead(S, d) ==
    \/ d \notin DOMAIN S.tasks
    \/ S.tasks[d].status \in {"failed", "cancelled", "blocked"}

\* task t depends on a dead id, directly or through at most n other tasks
RECURSIVE DependsOnDead(_, _, _)
DependsOnDead(S, t, n) ==
    \E d \in Range(S.tasks[t].depends_on) :
        \/ Dead(S, d)
        \/ (n > 0 /\ d \in DOMAIN S.tasks /\ DependsOnDead(S, d, n - 1))

\* a task that depends on a dead id is not returned, and a goal that owns a
\* failed, cancelled or blocked task is active or paused by its user, never
\* failed or completed, with a progress below 1.0
C39_Blocked ==
    /\ \A t \in DOMAIN db.tasks :
          DependsOnDead(db, t, Len(db.tasks)) => getNextTask(db) # t
    /\ \A d \in DOMAIN db.tasks :
          (Dead(db, d) /\ db.tasks[d].goal_id \in DOMAIN db.goals) =>
              LET g == db.goals[db.tasks[d].goal_id]
              IN /\ g.status \notin {"failed", "completed"}
                 /\ g.progress # Ratio(1, 1)

\* no step changes the status of a failed, cancelled or blocked task
C39_Step ==
    \A d \in DOMAIN db.tasks :
        (Dead(db, d) /\ d \in DOMAIN db'.tasks) =>
            db'.tasks[d].status = db.tasks[d].status

\* C39: while a task is failed, cancelled or blocked (or a dependency names
\* no task), nothing that depends on it is returned by getNextTask(), no
\* operation of the executor changes its status or fails its goal, and the
\* goal never reaches completed or progress 1.0.
C39_DeadStaysDead == []C39_Blocked /\ [][C39_Step]_vars

====
